---- MODULE Spec2Model ----
(***************************************************************************)
(* Signal aggregation, ranking and backtest engine of signal-stream.       *)
(*                                                                         *)
(* Numbers.  JavaScript numbers are modelled by exact integers and exact   *)
(* rationals <<num, den>> (den > 0; den = 0 stands for the NaN/Infinity    *)
(* results of a division by zero).  Prices and money are whole currency    *)
(* units, and a date is the number of its calendar day (ISO "YYYY-MM-DD"   *)
(* strings sort and subtract as their day numbers do).                     *)
(***************************************************************************)
EXTENDS Integers, Sequences, FiniteSets, TLC

\* ------------------------------------------------------------------------
\* Bounds of the model
\* ------------------------------------------------------------------------
MaxRankLen == 3
\* days of data after the day on which a full series reaches MinBars bars
TailDays == 6

\* ------------------------------------------------------------------------
\* Small sets the inputs are drawn from
\* ------------------------------------------------------------------------
RankScores == {-16, 2, 8, 20, 40}
RankConfidences == {10, 20}
SortEngines == {"v8", "spidermonkey"}

VARIABLES
  sortEngine,  \* the Array.prototype.sort implementation of the runtime
  rpc,         \* ranking: "idle", "input", "ranked", "reranked"
  recs,        \* ranking: the list handed to rankRecommendations
  ranked,      \* ranking: rankRecommendations(recs)
  reranked,    \* ranking: rankRecommendations(ranked)
  apc,         \* aggregation: "idle", "input", "done"
  signals,     \* aggregation: the signals handed to aggregateSignals
  strategyWeights,  \* aggregation: the weights argument, <<key, weight>> entries in key order
  volatility,  \* aggregation: the volatility handed to aggregateSignals
  recommendation,  \* aggregation: the AssetRecommendation returned
  impl,        \* backtest: "engine" (runBacktest) or "serve" (the edge function)
  config,      \* backtest: the BacktestConfig of the call
  now,         \* backtest: the day of the call (new Date())
  provider,    \* backtest: what the data provider answers for each ticker
  phase,       \* backtest: "idle", "Initializing", "Fetching", "Simulating",
               \*           "Finalizing", "Done", "Failed"
  error,       \* backtest: the message of the error thrown, "" if none
  fetchCalls,  \* backtest: history fetches issued so far (tickers processed)
  tickerDataMap,  \* backtest: ticker -> in-range bars
  sortedDates, \* backtest: the date axis
  i,           \* backtest: index of the date loop (from 0, as in the source)
  step,        \* backtest: position inside the loop body: "check", "select", "buy"
  cash,
  holdings,    \* backtest: <<ticker, quantity>> entries in insertion order
  equityCurve,
  trades,
  periodReturns,
  lastRebalanceDate,
  portfolioValueAtLastRebalance,
  buyRecommendations,  \* backtest: the picks of the rebalance in progress
  capitalPerAsset,
  pick,        \* backtest: number of picks of buyRecommendations processed
  metrics,     \* backtest: the metrics of the result
  rebalanceLog,  \* observer: the dates on which the rebalance branch was taken
  handed,      \* observer: dates of the bars read by the latest generateRecommendations
  spc,         \* series analysis: "idle", "input", "done"
  seriesCloses,  \* series analysis: the closes handed to the strategies, oldest first
  lookbackPeriod,  \* series analysis: the period argument of calculateVolatility
  analysis     \* series analysis: the four signals and the volatility returned

rankVars == <<rpc, recs, ranked, reranked>>
aggVars == <<apc, signals, strategyWeights, volatility, recommendation>>
callVars == <<impl, config, now, provider>>
btVars == <<phase, error, fetchCalls, tickerDataMap, sortedDates, i, step, cash,
            holdings, equityCurve, trades, periodReturns, lastRebalanceDate,
            portfolioValueAtLastRebalance, buyRecommendations, capitalPerAsset,
            pick, metrics, rebalanceLog, handed>>
seriesVars == <<spc, seriesCloses, lookbackPeriod, analysis>>
vars == <<sortEngine, rankVars, aggVars, callVars, btVars, seriesVars>>

\* the sections of the model that a specification leaves unused
RankIdle ==
  /\ rpc = "idle"
  /\ recs = <<>>
  /\ ranked = <<>>
  /\ reranked = <<>>

SeriesIdle ==
  /\ spc = "idle"
  /\ seriesCloses = <<>>
  /\ lookbackPeriod = 0
  /\ analysis = <<>>

AggIdle ==
  /\ apc = "idle"
  /\ signals = <<>>
  /\ strategyWeights = <<>>
  /\ volatility = <<0, 1>>
  /\ recommendation = <<>>

NotStarted ==
  /\ error = ""
  /\ fetchCalls = 0
  /\ tickerDataMap = <<>>
  /\ sortedDates = <<>>
  /\ i = 0
  /\ step = "check"
  /\ cash = 0
  /\ holdings = <<>>
  /\ equityCurve = <<>>
  /\ trades = <<>>
  /\ periodReturns = <<>>
  /\ lastRebalanceDate = 0
  /\ portfolioValueAtLastRebalance = 0
  /\ buyRecommendations = <<>>
  /\ capitalPerAsset = <<0, 1>>
  /\ pick = 0
  /\ metrics = <<>>
  /\ rebalanceLog = <<>>
  /\ handed = {}

BacktestIdle ==
  /\ impl = "engine"
  /\ config = <<>>
  /\ now = 0
  /\ provider = <<>>
  /\ phase = "idle"
  /\ NotStarted

\* ------------------------------------------------------------------------
\* Arithmetic helpers
\* ------------------------------------------------------------------------
Abs(x) == IF x < 0 THEN -x ELSE x

Reverse(s) == [k \in 1..Len(s) |-> s[Len(s) + 1 - k]]

Sign(x) == IF x > 0 THEN 1 ELSE IF x < 0 THEN -1 ELSE 0

RECURSIVE GCD(_, _)
GCD(a, b) == IF b = 0 THEN a ELSE GCD(b, a % b)

\* ------------------------------------------------------------------------
\* JavaScript numbers as exact rationals <<num, den>>, den >= 0, in lowest
\* terms; <<1, 0>> is Infinity, <<-1, 0>> is -Infinity and <<0, 0>> is NaN.
\* ------------------------------------------------------------------------
NaN == <<0, 0>>

Rat(n, d) ==
  IF d = 0 THEN <<Sign(n), 0>>
  ELSE LET g == GCD(Abs(n), Abs(d))
       IN <<(Sign(d) * n) \div g, Abs(d) \div g>>

Num(n) == <<n, 1>>

IsNaN(r) == r = NaN

IsFinite(r) == r[2] # 0

RatAdd(a, b) ==
  IF IsFinite(a) /\ IsFinite(b) THEN Rat(a[1] * b[2] + b[1] * a[2], a[2] * b[2])
  ELSE IF IsNaN(a) \/ IsNaN(b) THEN NaN
  ELSE IF IsFinite(a) THEN b
  ELSE IF IsFinite(b) THEN a
  ELSE IF a = b THEN a ELSE NaN

RatNeg(a) == <<-a[1], a[2]>>

RatSub(a, b) == RatAdd(a, RatNeg(b))

RatMul(a, b) ==
  IF IsFinite(a) /\ IsFinite(b) THEN Rat(a[1] * b[1], a[2] * b[2])
  ELSE <<Sign(a[1]) * Sign(b[1]), 0>>

RatDiv(a, b) ==
  IF IsFinite(a) /\ IsFinite(b) THEN Rat(a[1] * b[2], a[2] * b[1])
  ELSE IF IsNaN(a) \/ IsNaN(b) THEN NaN
  ELSE IF IsFinite(a) THEN Num(0)
  ELSE IF IsFinite(b) THEN <<a[1] * (IF b[1] < 0 THEN -1 ELSE 1), 0>>
  ELSE NaN

RatAbs(a) == <<Abs(a[1]), a[2]>>

\* a < b for finite a, b, without forming the cross products
RECURSIVE FiniteLess(_, _)
FiniteLess(a, b) ==
  LET qa == a[1] \div a[2]
      qb == b[1] \div b[2]
      ra == a[1] % a[2]
      rb == b[1] % b[2]
  IN IF qa # qb THEN qa < qb
     ELSE IF rb = 0 THEN FALSE
     ELSE IF ra = 0 THEN TRUE
     ELSE FiniteLess(<<b[2], rb>>, <<a[2], ra>>)

\* the comparison operators of the language: every comparison with NaN is false
RatLess(a, b) ==
  IF IsNaN(a) \/ IsNaN(b) THEN FALSE
  ELSE IF IsFinite(a) /\ IsFinite(b) THEN FiniteLess(a, b)
  ELSE IF IsFinite(a) THEN b[1] > 0
  ELSE IF IsFinite(b) THEN a[1] < 0
  ELSE a[1] < b[1]

RatGreater(a, b) == RatLess(b, a)

RatLeq(a, b) == ~IsNaN(a) /\ ~IsNaN(b) /\ ~RatLess(b, a)

RatGeq(a, b) == RatLeq(b, a)

\* Math.min and Math.max return NaN when an argument is NaN
RatMin(a, b) == IF IsNaN(a) \/ IsNaN(b) THEN NaN ELSE IF RatLess(b, a) THEN b ELSE a

RatMax(a, b) == IF IsNaN(a) \/ IsNaN(b) THEN NaN ELSE IF RatLess(a, b) THEN b ELSE a

\* the sign of a number used as the result of a comparison function
RatSign(a) == IF IsNaN(a) THEN 0 ELSE Sign(a[1])

RECURSIVE RatSum(_)
RatSum(s) == IF s = <<>> THEN Num(0) ELSE RatAdd(RatSum(SubSeq(s, 1, Len(s) - 1)), s[Len(s)])

\* ------------------------------------------------------------------------
\* rankRecommendations: the comparator
\* ------------------------------------------------------------------------
RankTolerance == Rat(1, 100)

\* the comparator with the tolerance tested on the signed difference
RankCompareSignedGap(a, b) ==
  LET scoreCompare == RatSub(RatAbs(b.score), RatAbs(a.score))
  IN IF RatGreater(scoreCompare, RankTolerance)
       THEN RatSign(scoreCompare)
       ELSE RatSign(RatSub(b.confidence, a.confidence))

\* the comparator on the signed scores
RankCompareSignedScore(a, b) ==
  LET scoreCompare == RatSub(b.score, a.score)
  IN IF RatGreater(RatAbs(scoreCompare), RankTolerance)
       THEN RatSign(scoreCompare)
       ELSE RatSign(RatSub(b.confidence, a.confidence))

RankCompare(a, b) ==
  LET scoreCompare == RatSub(RatAbs(b.score), RatAbs(a.score))
  IN IF RatGreater(RatAbs(scoreCompare), RankTolerance)
       THEN RatSign(scoreCompare)
       ELSE RatSign(RatSub(b.confidence, a.confidence))

\* (a, b) => b.score - a.score, the comparator of the backtest's pick selection
ScoreCompare(a, b) == RatSign(RatSub(b.score, a.score))

\* kind selects the comparison function handed to sort
Cmp(kind, a, b) ==
  IF kind = "rank" THEN RankCompare(a, b) ELSE ScoreCompare(a, b)

\* ------------------------------------------------------------------------
\* Array.prototype.sort.  The result is fixed by the language only for a
\* consistent comparison function; for any other it is the result of the
\* runtime's algorithm.  Both algorithms below are the short-array paths of
\* their engines (V8: arrays shorter than 64, SpiderMonkey: shorter than 24).
\* ------------------------------------------------------------------------
RECURSIVE RunEnd(_, _, _, _)
RunEnd(arr, kind, desc, idx) ==
  IF idx > Len(arr) THEN Len(arr)
  ELSE LET order == Cmp(kind, arr[idx], arr[idx - 1])
       IN IF (desc /\ order >= 0) \/ (~desc /\ order < 0)
            THEN idx - 1
            ELSE RunEnd(arr, kind, desc, idx + 1)

CountAndMakeRun(arr, kind) ==
  LET desc == Cmp(kind, arr[2], arr[1]) < 0
      len == RunEnd(arr, kind, desc, 3)
  IN [arr |-> IF desc
                THEN Reverse(SubSeq(arr, 1, len)) \o SubSeq(arr, len + 1, Len(arr))
                ELSE arr,
      run |-> len]

RECURSIVE BinarySearch(_, _, _, _, _)
BinarySearch(arr, kind, pivot, left, right) ==
  IF left >= right THEN left
  ELSE LET mid == left + ((right - left) \div 2)
       IN IF Cmp(kind, pivot, arr[mid + 1]) < 0
            THEN BinarySearch(arr, kind, pivot, left, mid)
            ELSE BinarySearch(arr, kind, pivot, mid + 1, right)

RECURSIVE BinaryInsertionSort(_, _, _)
BinaryInsertionSort(arr, kind, start) ==
  IF start >= Len(arr) THEN arr
  ELSE LET pivot == arr[start + 1]
           left == BinarySearch(arr, kind, pivot, 0, start)
           moved == SubSeq(arr, 1, left) \o <<pivot>>
                      \o SubSeq(arr, left + 1, start)
                      \o SubSeq(arr, start + 2, Len(arr))
       IN BinaryInsertionSort(moved, kind, start + 1)

TimSort(arr, kind) ==
  IF Len(arr) < 2 THEN arr
  ELSE LET r == CountAndMakeRun(arr, kind)
       IN BinaryInsertionSort(r.arr, kind, r.run)

RECURSIVE InsertPos(_, _, _, _)
InsertPos(arr, kind, item, j) ==
  IF j < 1 THEN 0
  ELSE IF Cmp(kind, arr[j], item) <= 0 THEN j
  ELSE InsertPos(arr, kind, item, j - 1)

RECURSIVE InsertionSort(_, _, _)
InsertionSort(arr, kind, k) ==
  IF k > Len(arr) THEN arr
  ELSE LET item == arr[k]
           j == InsertPos(arr, kind, item, k - 1)
           moved == SubSeq(arr, 1, j) \o <<item>>
                      \o SubSeq(arr, j + 1, k - 1)
                      \o SubSeq(arr, k + 1, Len(arr))
       IN InsertionSort(moved, kind, k + 1)

ArraySort(arr, kind, engine) ==
  IF engine = "v8" THEN TimSort(arr, kind) ELSE InsertionSort(arr, kind, 2)

rankRecommendations(recommendations, engine) ==
  ArraySort(recommendations, "rank", engine)

\* ------------------------------------------------------------------------
\* Strategy names and the weights mapping; a string is the sequence of its
\* characters
\* ------------------------------------------------------------------------
NameMA == <<"M", "A", " ", "C", "r", "o", "s", "s", "o", "v", "e", "r">>
NameRSI == <<"R", "S", "I", " ", "M", "e", "a", "n", " ", "R", "e", "v", "e", "r", "s", "i", "o", "n">>
NameMF == <<"M", "u", "l", "t", "i", "-", "F", "a", "c", "t", "o", "r">>
NameML == <<"M", "L", " ", "S", "t", "r", "a", "t", "e", "g", "y">>

KeyMA == <<"m", "a", "_", "c", "r", "o", "s", "s", "o", "v", "e", "r">>
KeyRSI == <<"r", "s", "i", "_", "m", "e", "a", "n", "_", "r", "e", "v", "e", "r", "s", "i", "o", "n">>
KeyMF == <<"m", "u", "l", "t", "i", "_", "f", "a", "c", "t", "o", "r">>
KeyML == <<"m", "l", "_", "s", "t", "r", "a", "t", "e", "g", "y">>

\* the entries of DEFAULT_WEIGHTS in their order of declaration
DEFAULT_WEIGHTS ==
  << <<KeyMA, Rat(1, 1)>>, <<KeyRSI, Rat(1, 1)>>, <<KeyMF, Rat(1, 1)>>, <<KeyML, Rat(1, 2)>> >>

UpperCase == <<"A", "B", "C", "D", "E", "F", "G", "H", "I", "J", "K", "L", "M", "N", "O", "P", "Q", "R", "S", "T", "U", "V", "W", "X", "Y", "Z">>
LowerCase == <<"a", "b", "c", "d", "e", "f", "g", "h", "i", "j", "k", "l", "m", "n", "o", "p", "q", "r", "s", "t", "u", "v", "w", "x", "y", "z">>

\* the characters the class \s matches, among those of the model
Whitespace == {" "}

toLowerCase(str) ==
  [k \in 1..Len(str) |->
     IF \E n \in 1..26 : UpperCase[n] = str[k]
       THEN LowerCase[CHOOSE n \in 1..26 : UpperCase[n] = str[k]]
       ELSE str[k]]

RECURSIVE SkipWhitespace(_)
SkipWhitespace(str) ==
  IF str # <<>> /\ Head(str) \in Whitespace THEN SkipWhitespace(Tail(str)) ELSE str

\* str.replace(/\s+/g, "_")
RECURSIVE ReplaceWhitespace(_)
ReplaceWhitespace(str) ==
  IF str = <<>> THEN <<>>
  ELSE IF Head(str) \in Whitespace
    THEN <<"_">> \o ReplaceWhitespace(SkipWhitespace(str))
    ELSE <<Head(str)>> \o ReplaceWhitespace(Tail(str))

SignalKey(name) == ReplaceWhitespace(toLowerCase(name))

\* ------------------------------------------------------------------------
\* aggregateSignals and calculateConfidence
\* ------------------------------------------------------------------------
SignalMap(sigs) ==
  [key \in {SignalKey(sigs[k].name) : k \in 1..Len(sigs)} |->
     LET last == CHOOSE k \in 1..Len(sigs) :
                   /\ SignalKey(sigs[k].name) = key
                   /\ \A m \in 1..Len(sigs) : SignalKey(sigs[m].name) = key => m <= k
     IN sigs[last]]

CountDirection(sigs, dir) == Cardinality({k \in 1..Len(sigs) : sigs[k].direction = dir})

Max3(a, b, c) == IF a >= b /\ a >= c THEN a ELSE IF b >= c THEN b ELSE c

\* Factor 1: magnitude of the combined score, 0-40 points
scoreFactor(combinedScore) ==
  RatMul(RatMin(RatDiv(RatAbs(combinedScore), Num(2)), Num(1)), Num(40))

\* Factor 2: agreement between strategies, 0-40 points
agreementFactor(sigs) ==
  LET maxCount == Max3(CountDirection(sigs, "buy"), CountDirection(sigs, "sell"),
                       CountDirection(sigs, "neutral"))
      agreementRatio == Rat(maxCount, Len(sigs))
  IN RatMul(agreementRatio, Num(40))

\* Factor 3: 20 points less the volatility penalty
volatilityFactor(vol) ==
  LET volatilityPenalty == RatMin(RatMul(vol, Num(100)), Num(20))
  IN RatSub(Num(20), volatilityPenalty)

\* the sum of the three factors returned as it is
calculateConfidenceUnclamped(sigs, combinedScore, vol) ==
  IF Len(sigs) = 0 THEN Num(0)
  ELSE RatAdd(RatAdd(scoreFactor(combinedScore), agreementFactor(sigs)),
              volatilityFactor(vol))

calculateConfidence(sigs, combinedScore, vol) ==
  IF Len(sigs) = 0 THEN Num(0)
  ELSE LET confidence == RatAdd(RatAdd(scoreFactor(combinedScore), agreementFactor(sigs)),
                                volatilityFactor(vol))
       IN RatMax(Num(0), RatMin(Num(100), confidence))

\* the weighted mean taken without the totalWeight > 0 test
aggregateSignalsUnguarded(ticker, assetType, currentPrice, priceChangePct, vol, sigs, weights) ==
  LET signalMap == SignalMap(sigs)
      matched == SelectSeq(weights, LAMBDA w : w[1] \in DOMAIN signalMap)
      weightedScore ==
        RatSum([k \in 1..Len(matched) |->
                  RatMul(matched[k][2], signalMap[matched[k][1]].normalizedScore)])
      totalWeight == RatSum([k \in 1..Len(matched) |-> matched[k][2]])
      combinedScore ==
        RatDiv(weightedScore, totalWeight)
      rec == IF RatGeq(combinedScore, Rat(1, 2)) THEN "BUY"
             ELSE IF RatLeq(combinedScore, Rat(-1, 2)) THEN "SELL"
             ELSE "HOLD"
  IN [ticker |-> ticker,
      assetType |-> assetType,
      recommendation |-> rec,
      score |-> combinedScore,
      confidence |-> calculateConfidence(sigs, combinedScore, vol),
      volatility |-> vol,
      currentPrice |-> currentPrice,
      priceChangePct |-> priceChangePct,
      contributingSignals |-> signalMap]

\* the thresholds taken as strict inequalities
aggregateSignalsStrict(ticker, assetType, currentPrice, priceChangePct, vol, sigs, weights) ==
  LET signalMap == SignalMap(sigs)
      matched == SelectSeq(weights, LAMBDA w : w[1] \in DOMAIN signalMap)
      weightedScore ==
        RatSum([k \in 1..Len(matched) |->
                  RatMul(matched[k][2], signalMap[matched[k][1]].normalizedScore)])
      totalWeight == RatSum([k \in 1..Len(matched) |-> matched[k][2]])
      combinedScore ==
        IF RatGreater(totalWeight, Num(0)) THEN RatDiv(weightedScore, totalWeight) ELSE Num(0)
      rec == IF RatGreater(combinedScore, Rat(1, 2)) THEN "BUY"
             ELSE IF RatLess(combinedScore, Rat(-1, 2)) THEN "SELL"
             ELSE "HOLD"
  IN [ticker |-> ticker,
      assetType |-> assetType,
      recommendation |-> rec,
      score |-> combinedScore,
      confidence |-> calculateConfidence(sigs, combinedScore, vol),
      volatility |-> vol,
      currentPrice |-> currentPrice,
      priceChangePct |-> priceChangePct,
      contributingSignals |-> signalMap]

aggregateSignals(ticker, assetType, currentPrice, priceChangePct, vol, sigs, weights) ==
  LET signalMap == SignalMap(sigs)
      matched == SelectSeq(weights, LAMBDA w : w[1] \in DOMAIN signalMap)
      weightedScore ==
        RatSum([k \in 1..Len(matched) |->
                  RatMul(matched[k][2], signalMap[matched[k][1]].normalizedScore)])
      totalWeight == RatSum([k \in 1..Len(matched) |-> matched[k][2]])
      combinedScore ==
        IF RatGreater(totalWeight, Num(0)) THEN RatDiv(weightedScore, totalWeight) ELSE Num(0)
      rec == IF RatGeq(combinedScore, Rat(1, 2)) THEN "BUY"
             ELSE IF RatLeq(combinedScore, Rat(-1, 2)) THEN "SELL"
             ELSE "HOLD"
  IN [ticker |-> ticker,
      assetType |-> assetType,
      recommendation |-> rec,
      score |-> combinedScore,
      confidence |-> calculateConfidence(sigs, combinedScore, vol),
      volatility |-> vol,
      currentPrice |-> currentPrice,
      priceChangePct |-> priceChangePct,
      contributingSignals |-> signalMap]

\* ------------------------------------------------------------------------
\* Time-series primitives (fetchHistorical.ts).  A series of closes is a
\* sequence; index k of the model is index k - 1 of the source.
\* ------------------------------------------------------------------------
\* rounding to the nearest integer instead of down
FloorNearest(r) == (2 * r[1] + r[2]) \div (2 * r[2])

\* Math.floor
Floor(r) == r[1] \div r[2]

RECURSIVE SumRange(_, _, _)
SumRange(values, lo, hi) ==
  IF lo > hi THEN 0
  ELSE IF lo = hi THEN values[lo]
  ELSE LET mid == (lo + hi) \div 2
       IN SumRange(values, lo, mid) + SumRange(values, mid + 1, hi)

\* element k of calculateSMA(values, period)
calculateSMA(values, period, k) ==
  IF k < 1 \/ k > Len(values) THEN NaN
  ELSE IF k - 1 < period - 1 THEN NaN
  ELSE Rat(SumRange(values, k - period + 1, k), period)

RECURSIVE SumGains(_, _, _)
SumGains(closes, lo, hi) ==
  IF lo > hi THEN 0
  ELSE LET c == closes[hi + 1] - closes[hi]
       IN (IF c > 0 THEN c ELSE 0) + SumGains(closes, lo, hi - 1)

RECURSIVE SumLosses(_, _, _)
SumLosses(closes, lo, hi) ==
  IF lo > hi THEN 0
  ELSE LET c == closes[hi + 1] - closes[hi]
       IN (IF c < 0 THEN c ELSE 0) + SumLosses(closes, lo, hi - 1)

\* element k of calculateRSI(closes, period): the result is NaN followed by
\* one entry per change; change number c (from 1) is closes[c + 1] - closes[c]
calculateRSI(closes, period, k) ==
  IF k < 1 \/ k > Len(closes) THEN NaN
  ELSE IF k = 1 THEN NaN
  ELSE LET c == k - 1
       IN IF c - 1 < period THEN NaN
          ELSE LET gains == Rat(SumGains(closes, c - period + 1, c), period)
                   losses == Rat(Abs(SumLosses(closes, c - period + 1, c)), period)
               IN IF losses = Num(0) THEN Num(100)
                  ELSE LET rs == RatDiv(gains, losses)
                       IN RatSub(Num(100), RatDiv(Num(100), RatAdd(Num(1), rs)))

\* Math.sqrt on fixed-point values: the integer square root
RECURSIVE SqrtSearch(_, _, _)
SqrtSearch(x, lo, hi) ==
  IF lo >= hi THEN lo
  ELSE LET mid == (lo + hi + 1) \div 2
       IN IF mid * mid <= x THEN SqrtSearch(x, mid, hi) ELSE SqrtSearch(x, lo, mid - 1)

ISqrt(x) == SqrtSearch(x, 0, 40000)

\* returns and volatilities are fixed-point numbers in units of 1 / FixedScale
FixedScale == 10000

FixedReturn(prices, k) == ((prices[k] - prices[k - 1]) * FixedScale) \div prices[k - 1]

RECURSIVE SumReturns(_, _, _)
SumReturns(prices, lo, hi) ==
  IF lo > hi THEN 0 ELSE FixedReturn(prices, hi) + SumReturns(prices, lo, hi - 1)

RECURSIVE SumSquares(_, _, _, _)
SumSquares(prices, mean, lo, hi) ==
  IF lo > hi THEN 0
  ELSE (FixedReturn(prices, hi) - mean) * (FixedReturn(prices, hi) - mean)
         + SumSquares(prices, mean, lo, hi - 1)

\* ------------------------------------------------------------------------
\* Strategies
\* ------------------------------------------------------------------------
Closes(data) == [k \in 1..Len(data) |-> data[k].close]

InsufficientData(name) ==
  [name |-> name, rawScore |-> Num(0), normalizedScore |-> Num(0),
   direction |-> "neutral", meta |-> "Insufficient data"]

ShortWindow == 50
LongWindow == 200

\* the gate one bar too low
maCrossoverStrategyLateGate(data) ==
  IF Len(data) < LongWindow - 1 THEN InsufficientData(NameMA)
  ELSE LET closes == Closes(data)
           n == Len(closes)
           lastShortMA == calculateSMA(closes, ShortWindow, n)
           lastLongMA == calculateSMA(closes, LongWindow, n)
           prevShortMA == calculateSMA(closes, ShortWindow, n - 1)
           prevLongMA == calculateSMA(closes, LongWindow, n - 1)
           lastPrice == closes[n]
           rawScore == RatSub(lastShortMA, lastLongMA)
           normalizedScore == RatMul(RatDiv(rawScore, Num(lastPrice)), Num(100))
           direction ==
             IF RatLeq(prevShortMA, prevLongMA) /\ RatGreater(lastShortMA, lastLongMA) THEN "buy"
             ELSE IF RatGeq(prevShortMA, prevLongMA) /\ RatLess(lastShortMA, lastLongMA) THEN "sell"
             ELSE IF RatGreater(lastShortMA, lastLongMA) THEN "buy"
             ELSE IF RatLess(lastShortMA, lastLongMA) THEN "sell"
             ELSE "neutral"
       IN [name |-> NameMA, rawScore |-> rawScore, normalizedScore |-> normalizedScore,
           direction |-> direction, meta |-> "values"]

\* the strategy with the direction taken from the previous bar's averages
maCrossoverStrategyPrevBar(data) ==
  IF Len(data) < LongWindow THEN InsufficientData(NameMA)
  ELSE LET closes == Closes(data)
           n == Len(closes)
           lastShortMA == calculateSMA(closes, ShortWindow, n)
           lastLongMA == calculateSMA(closes, LongWindow, n)
           prevShortMA == calculateSMA(closes, ShortWindow, n - 1)
           prevLongMA == calculateSMA(closes, LongWindow, n - 1)
           lastPrice == closes[n]
           rawScore == RatSub(lastShortMA, lastLongMA)
           normalizedScore == RatMul(RatDiv(rawScore, Num(lastPrice)), Num(100))
           direction ==
             IF RatGreater(prevShortMA, prevLongMA) THEN "buy"
             ELSE IF RatLess(prevShortMA, prevLongMA) THEN "sell"
             ELSE "neutral"
       IN [name |-> NameMA, rawScore |-> rawScore, normalizedScore |-> normalizedScore,
           direction |-> direction, meta |-> "values"]

maCrossoverStrategy(data) ==
  IF Len(data) < LongWindow THEN InsufficientData(NameMA)
  ELSE LET closes == Closes(data)
           n == Len(closes)
           lastShortMA == calculateSMA(closes, ShortWindow, n)
           lastLongMA == calculateSMA(closes, LongWindow, n)
           prevShortMA == calculateSMA(closes, ShortWindow, n - 1)
           prevLongMA == calculateSMA(closes, LongWindow, n - 1)
           lastPrice == closes[n]
           rawScore == RatSub(lastShortMA, lastLongMA)
           normalizedScore == RatMul(RatDiv(rawScore, Num(lastPrice)), Num(100))
           direction ==
             IF RatLeq(prevShortMA, prevLongMA) /\ RatGreater(lastShortMA, lastLongMA) THEN "buy"
             ELSE IF RatGeq(prevShortMA, prevLongMA) /\ RatLess(lastShortMA, lastLongMA) THEN "sell"
             ELSE IF RatGreater(lastShortMA, lastLongMA) THEN "buy"
             ELSE IF RatLess(lastShortMA, lastLongMA) THEN "sell"
             ELSE "neutral"
       IN [name |-> NameMA, rawScore |-> rawScore, normalizedScore |-> normalizedScore,
           direction |-> direction, meta |-> "values"]

RsiPeriod == 14
Oversold == 30
Overbought == 70

rsiMeanReversionStrategy(data) ==
  IF Len(data) < RsiPeriod + 1 THEN InsufficientData(NameRSI)
  ELSE LET closes == Closes(data)
           lastRSI == calculateRSI(closes, RsiPeriod, Len(closes))
       IN IF IsNaN(lastRSI)
            THEN [name |-> NameRSI, rawScore |-> Num(0), normalizedScore |-> Num(0),
                  direction |-> "neutral", meta |-> "RSI calculation failed"]
            ELSE LET rawScore ==
                       IF RatLess(lastRSI, Num(Oversold)) THEN RatSub(Num(Oversold), lastRSI)
                       ELSE IF RatGreater(lastRSI, Num(Overbought))
                         THEN RatNeg(RatSub(lastRSI, Num(Overbought)))
                       ELSE Num(0)
                     direction ==
                       IF RatLess(lastRSI, Num(Oversold)) THEN "buy"
                       ELSE IF RatGreater(lastRSI, Num(Overbought)) THEN "sell"
                       ELSE "neutral"
                 IN [name |-> NameRSI, rawScore |-> rawScore,
                     normalizedScore |-> RatMul(RatDiv(rawScore, Num(50)), Num(2)),
                     direction |-> direction, meta |-> "values"]

\* calculateVolatility of fetchHistorical.ts on prices.slice(-period): the
\* annualised standard deviation of the returns of the slice, a number in
\* units of 1 / FixedScale; with no return in the slice the mean is 0 / 0
SliceStart(n, period) ==
  IF period = 0 THEN 1
  ELSE IF period > 0 THEN (IF n - period + 1 > 1 THEN n - period + 1 ELSE 1)
  ELSE (IF 1 - period > n THEN n + 1 ELSE 1 - period)

calculateVolatility(prices, period) ==
  IF Len(prices) < period THEN Num(0)
  ELSE LET n == Len(prices)
           first == SliceStart(n, period)
           count == IF n - first > 0 THEN n - first ELSE 0
       IN IF count = 0 THEN NaN
          ELSE LET mean == SumReturns(prices, first + 1, n) \div count
                   variance == SumSquares(prices, mean, first + 1, n) \div count
               IN Rat(ISqrt(variance * 252), FixedScale)

MomentumPeriod == 126
VolatilityPeriod == 60

\* closes[closes.length - momentumPeriod - 1], as an index of the model
OldPriceIndex(n, momentumPeriod) == n - momentumPeriod

multiFactorStrategy(data) ==
  IF Len(data) < MomentumPeriod THEN InsufficientData(NameMF)
  ELSE LET closes == Closes(data)
           n == Len(closes)
           currentPrice == closes[n]
           old == OldPriceIndex(n, MomentumPeriod)
           momentum == IF old < 1 THEN NaN
                       ELSE Rat(currentPrice - closes[old], closes[old])
           vol == calculateVolatility(closes, VolatilityPeriod)
           momentumZScore == RatDiv(momentum, Rat(3, 10))
           volatilityZScore == RatNeg(RatDiv(RatSub(vol, Rat(1, 4)), Rat(3, 20)))
           combinedScore == RatAdd(RatMul(Rat(7, 10), momentumZScore),
                                   RatMul(Rat(3, 10), volatilityZScore))
           direction == IF RatGreater(combinedScore, Rat(1, 2)) THEN "buy"
                        ELSE IF RatLess(combinedScore, Rat(-1, 2)) THEN "sell"
                        ELSE "neutral"
       IN [name |-> NameMF, rawScore |-> combinedScore,
           normalizedScore |-> RatMax(Num(-2), RatMin(Num(2), combinedScore)),
           direction |-> direction, meta |-> "values"]

MlMinBars == 60
MlMomentumBars == 10
MlVolatilityPeriod == 30

\* 1 / (1 + Math.exp(-x)) for x in hundredths, as 1/2 + tanh(x/2) / 2 with
\* tanh(y) taken as y (27 + y^2) / (27 + 9 y^2) for |y| <= 3 and as +-1 beyond
Sigmoid(hundredths) ==
  LET a == hundredths
  IN IF a >= 600 THEN Num(1)
     ELSE IF a <= -600 THEN Num(0)
     ELSE RatAdd(Rat(1, 2),
                 Rat(a * (27 * 40000 + a * a), 2 * 200 * (27 * 40000 + 9 * a * a)))

mlStrategy(data) ==
  IF Len(data) < MlMinBars THEN InsufficientData(NameML)
  ELSE LET closes == Closes(data)
           n == Len(closes)
           lastRSI == calculateRSI(closes, RsiPeriod, n)
           rsiNorm == IF IsNaN(lastRSI) THEN FixedScale \div 2
                      ELSE Floor(RatMul(lastRSI, Rat(FixedScale, 100)))
           currentPrice == closes[n]
           oldPrice == closes[n - MlMomentumBars]
           shortMomentum == ((currentPrice - oldPrice) * FixedScale) \div oldPrice
           vol == Floor(RatMul(calculateVolatility(closes, MlVolatilityPeriod), Num(FixedScale)))
           rawScore == (FixedScale \div 10) - (rsiNorm \div 2) + 2 * shortMomentum - vol
           probability == Sigmoid((rawScore * 100) \div FixedScale)
           direction == IF RatGreater(probability, Rat(6, 10)) THEN "buy"
                        ELSE IF RatLess(probability, Rat(4, 10)) THEN "sell"
                        ELSE "neutral"
       IN [name |-> NameML, rawScore |-> Rat(rawScore, FixedScale),
           normalizedScore |-> RatMul(RatSub(probability, Rat(1, 2)), Num(4)),
           direction |-> direction, meta |-> "values"]

\* ------------------------------------------------------------------------
\* Series analysis: the four strategies and calculateVolatility applied to
\* one series of closes
\* ------------------------------------------------------------------------
SeriesShapes == {"flat", "rise", "fall", "spike", "drop", "step", "crash", "surge"}

ShapeClose(shape, k, n) ==
  CASE shape = "flat" -> 50
    [] shape = "rise" -> 20 + (k \div 8)
    [] shape = "fall" -> 60 - (k \div 8)
    [] shape = "spike" -> IF k = n THEN 90 ELSE 50
    [] shape = "drop" -> IF k = n THEN 10 ELSE 50
    [] shape = "step" -> IF k = 1 THEN 90 ELSE 50
    [] shape = "crash" -> IF k = n THEN 1 ELSE 200 + (k \div 40)
    [] shape = "surge" -> IF k = n THEN 400 ELSE 210 - (k \div 40)

MakeCloses(shape, n) == [k \in 1..n |-> ShapeClose(shape, k, n)]

\* the empty series, one bar, and the lengths around each strategy's minimum
SeriesLengths ==
  {0, 1} \cup UNION {{m - 1, m, m + 1} :
                       m \in {RsiPeriod + 1, MlMinBars, MomentumPeriod, LongWindow}}

LookbackPeriods == {1, 2, MlVolatilityPeriod, VolatilityPeriod}

AsData(closes) == [k \in 1..Len(closes) |-> [date |-> k, close |-> closes[k]]]

SeriesInit ==
  /\ sortEngine = "v8"
  /\ RankIdle
  /\ AggIdle
  /\ BacktestIdle
  /\ spc = "input"
  /\ \E shape \in SeriesShapes : \E n \in SeriesLengths : seriesCloses = MakeCloses(shape, n)
  /\ lookbackPeriod \in LookbackPeriods
  /\ analysis = <<>>

Analyse ==
  /\ spc = "input"
  /\ analysis' =
       [ma |-> maCrossoverStrategy(AsData(seriesCloses)),
        rsi |-> rsiMeanReversionStrategy(AsData(seriesCloses)),
        mf |-> multiFactorStrategy(AsData(seriesCloses)),
        ml |-> mlStrategy(AsData(seriesCloses)),
        volatility |-> calculateVolatility(seriesCloses, lookbackPeriod)]
  /\ spc' = "done"
  /\ UNCHANGED <<seriesCloses, lookbackPeriod, sortEngine, rankVars, aggVars, callVars, btVars>>

SeriesNext == Analyse

SpecSeries == SeriesInit /\ [][SeriesNext]_vars

\* ------------------------------------------------------------------------
\* Aggregation: aggregateSignals applied to the signals of the strategies
\* ------------------------------------------------------------------------
StrategyNames == <<NameMA, NameRSI, NameMF, NameML>>

\* normalizedScore (in units of 0.001) and direction of an emitted signal
AggOutcomes ==
  {<<-1500, "sell">>, <<-500, "sell">>, <<0, "neutral">>, <<1000, "buy">>, <<2000, "buy">>}

\* the weights argument: the default, all weights 0, and two weights that cancel
ZeroWeights ==
  << <<KeyMA, Num(0)>>, <<KeyRSI, Num(0)>>, <<KeyMF, Num(0)>>, <<KeyML, Num(0)>> >>

CancellingWeights ==
  << <<KeyMA, Num(1)>>, <<KeyRSI, Num(-1)>>, <<KeyMF, Num(1)>>, <<KeyML, Num(0)>> >>

AggWeights == {DEFAULT_WEIGHTS, ZeroWeights, CancellingWeights}

\* none, moderate, far beyond the penalty cap, and a negative one
AggVolatilities == {Rat(0, 1), Rat(1, 10), Num(1000), Num(-1)}

\* which strategies ran, in the order the callers push their signals
AggSelections == SUBSET (1..4)

RECURSIVE SetToSeq(_)
SetToSeq(S) ==
  IF S = {} THEN <<>>
  ELSE LET m == CHOOSE x \in S : \A y \in S : x <= y
       IN <<m>> \o SetToSeq(S \ {m})

MakeSignals(sel, f) ==
  LET idx == SetToSeq(sel)
  IN [k \in 1..Len(idx) |->
        [name |-> StrategyNames[idx[k]],
         rawScore |-> Rat(f[idx[k]][1], 1000),
         normalizedScore |-> Rat(f[idx[k]][1], 1000),
         direction |-> f[idx[k]][2]]]

AggInit ==
  /\ sortEngine = "v8"
  /\ RankIdle
  /\ BacktestIdle
  /\ SeriesIdle
  /\ apc = "input"
  /\ \E sel \in AggSelections : \E f \in [sel -> AggOutcomes] : signals = MakeSignals(sel, f)
  /\ \/ strategyWeights = DEFAULT_WEIGHTS /\ volatility \in AggVolatilities
     \/ strategyWeights \in AggWeights /\ volatility = Num(0)
  /\ recommendation = <<>>

Aggregate ==
  /\ apc = "input"
  /\ recommendation' =
       aggregateSignals("A", "stocks", Num(100), Num(0), volatility, signals, strategyWeights)
  /\ apc' = "done"
  /\ UNCHANGED <<seriesVars, sortEngine, rankVars, signals, strategyWeights, volatility, callVars, btVars>>

AggNext == Aggregate

SpecAgg == AggInit /\ [][AggNext]_vars

\* ------------------------------------------------------------------------
\* Ranking: rankRecommendations applied to a list, then to its own result
\* ------------------------------------------------------------------------
RankInputs ==
  UNION {[1..n -> RankScores \X RankConfidences] : n \in 0..MaxRankLen}

MakeRecs(f) ==
  [k \in 1..Len(f) |->
     [ticker |-> k, score |-> Rat(f[k][1], 1000), confidence |-> Num(f[k][2])]]

RankInit ==
  /\ sortEngine \in SortEngines
  /\ rpc = "input"
  /\ \E f \in RankInputs : recs = MakeRecs(f)
  /\ ranked = <<>>
  /\ reranked = <<>>
  /\ AggIdle
  /\ BacktestIdle
  /\ SeriesIdle

RankOnce ==
  /\ rpc = "input"
  /\ ranked' = rankRecommendations(recs, sortEngine)
  /\ rpc' = "ranked"
  /\ UNCHANGED <<seriesVars, sortEngine, recs, reranked, aggVars, callVars, btVars>>

RankAgain ==
  /\ rpc = "ranked"
  /\ reranked' = rankRecommendations(ranked, sortEngine)
  /\ rpc' = "reranked"
  /\ UNCHANGED <<seriesVars, sortEngine, recs, ranked, aggVars, callVars, btVars>>

RankNext == RankOnce \/ RankAgain

SpecRank == RankInit /\ [][RankNext]_vars

\* ------------------------------------------------------------------------
\* The data provider: the series it can answer with.  A bar is a record of
\* its date and close (the engine reads no other field).
\* ------------------------------------------------------------------------
\* if (historicalData.length < 200) continue
MinBars == 200

LastDay == MinBars + TailDays

GapDays == {MinBars + 3, MinBars + 5}

SeriesUp == [d \in 1..LastDay |-> [date |-> d, close |-> 20 + (d \div 8)]]

SeriesDown == [d \in 1..LastDay |-> [date |-> d, close |-> 60 - (d \div 8)]]

SeriesSteep == [d \in 1..LastDay |-> [date |-> d, close |-> 20 + (d \div 4)]]

SeriesMild == [d \in 1..LastDay |-> [date |-> d, close |-> 20 + (d \div 16)]]

SeriesGap == SelectSeq(SeriesUp, LAMBDA b : b.date \notin GapDays)

SeriesLate == SelectSeq(SeriesUp, LAMBDA b : b.date >= 4)

ProviderSeries(outcome) ==
  CASE outcome = "up" -> SeriesUp
    [] outcome = "down" -> SeriesDown
    [] outcome = "gap" -> SeriesGap
    [] outcome = "late" -> SeriesLate
    [] outcome = "steep" -> SeriesSteep
    [] outcome = "mild" -> SeriesMild
    [] OTHER -> <<>>

\* ------------------------------------------------------------------------
\* Backtest helpers shared by runBacktest (engine.ts) and the edge function
\* ------------------------------------------------------------------------
\* the outcome of a call that can throw
Threw == [threw |-> TRUE, data |-> <<>>]

Returned(data) == [threw |-> FALSE, data |-> data]

InRange(data, startDate, endDate) ==
  SelectSeq(data, LAMBDA d : d.date >= startDate /\ d.date <= endDate)

PositiveCloses(data) == SelectSeq(data, LAMBDA d : d.close > 0)

\* fetchHistoricalData: throws on an error answer or an empty array
fetchHistoricalData(outcome) ==
  IF outcome = "fail" \/ Len(ProviderSeries(outcome)) = 0 THEN Threw
  ELSE Returned(PositiveCloses(ProviderSeries(outcome)))

getPriceAtDate(data, date) ==
  IF \E k \in 1..Len(data) : data[k].date = date
    THEN data[CHOOSE k \in 1..Len(data) :
                /\ data[k].date = date
                /\ \A m \in 1..(k - 1) : data[m].date # date].close
    ELSE 0

RECURSIVE HoldingsValue(_, _, _)
HoldingsValue(held, dataMap, date) ==
  IF held = <<>> THEN 0
  ELSE HoldingsValue(SubSeq(held, 1, Len(held) - 1), dataMap, date)
         + held[Len(held)][2] * getPriceAtDate(dataMap[held[Len(held)][1]], date)

calculatePortfolioValue(c, held, dataMap, date) == c + HoldingsValue(held, dataMap, date)

\* holdings[ticker] = quantity on an object that keeps insertion order
PutHolding(held, ticker, quantity) ==
  IF \E k \in 1..Len(held) : held[k][1] = ticker
    THEN [k \in 1..Len(held) |-> IF held[k][1] = ticker THEN <<ticker, quantity>> ELSE held[k]]
    ELSE Append(held, <<ticker, quantity>>)

AllDates(dataMap) ==
  UNION {{dataMap[t][k].date : k \in 1..Len(dataMap[t])} : t \in DOMAIN dataMap}

\* the dates sorted the wrong way round
DescendingDates(dataMap) ==
  LET allDates == AllDates(dataMap)
      first == CHOOSE d \in allDates : \A e \in allDates : d <= e
      last == CHOOSE d \in allDates : \A e \in allDates : e <= d
  IN IF allDates = {} THEN <<>>
     ELSE SelectSeq([k \in 1..(last - first + 1) |-> last - k + 1],
                    LAMBDA d : d \in allDates)

\* Array.from(allDates).sort()
SortedDates(dataMap) ==
  LET allDates == AllDates(dataMap)
      first == CHOOSE d \in allDates : \A e \in allDates : d <= e
      last == CHOOSE d \in allDates : \A e \in allDates : e <= d
  IN IF allDates = {} THEN <<>>
     ELSE SelectSeq([k \in 1..(last - first + 1) |-> first + k - 1],
                    LAMBDA d : d \in allDates)

Includes(list, x) == \E k \in 1..Len(list) : list[k] = x

\* the history without the cut at the date
HistoricalDataAll(data, date) == data

HistoricalData(data, date) == SelectSeq(data, LAMBDA d : d.date <= date)

\* ------------------------------------------------------------------------
\* generateRecommendations of engine.ts
\* ------------------------------------------------------------------------
VolatilityWindow == 30

\* calculateVolatility of engine.ts, in units of 1 / FixedScale
calculateVolatilityLocal(prices) ==
  IF Len(prices) < VolatilityWindow THEN 0
  ELSE LET n == Len(prices)
           lo == IF n - VolatilityWindow + 1 > 2 THEN n - VolatilityWindow + 1 ELSE 2
           count == n - lo + 1
           mean == SumReturns(prices, lo, n) \div count
           variance == SumSquares(prices, mean, lo, n) \div count
       IN ISqrt(variance * 252)

EngineSignals(historicalData, selectedStrategies) ==
  (IF Includes(selectedStrategies, "ma_crossover")
     THEN <<maCrossoverStrategy(historicalData)>> ELSE <<>>)
  \o (IF Includes(selectedStrategies, "rsi_mean_reversion")
        THEN <<rsiMeanReversionStrategy(historicalData)>> ELSE <<>>)

EngineRecommendation(ticker, assetType, data, date, selectedStrategies) ==
  LET historicalData == HistoricalData(data, date)
      currentPrice == getPriceAtDate(data, date)
      prevPrice == IF Len(historicalData) > 1
                     THEN historicalData[Len(historicalData) - 1].close
                     ELSE currentPrice
      priceChangePct == RatMul(Rat(currentPrice - prevPrice, prevPrice), Num(100))
      closes == Closes(historicalData)
      vol == Rat(calculateVolatilityLocal(closes), FixedScale)
  IN aggregateSignals(ticker, assetType, Num(currentPrice), priceChangePct, vol,
                      EngineSignals(historicalData, selectedStrategies), DEFAULT_WEIGHTS)

\* the skips without the test on the number of historical bars
RecommendableAnyHistory(dataMap, ticker, date) ==
  /\ ticker \in DOMAIN dataMap
  /\ Len(dataMap[ticker]) # 0
  /\ getPriceAtDate(dataMap[ticker], date) # 0

\* the tickers of the list, in order, that pass the three skips
Recommendable(dataMap, ticker, date) ==
  /\ ticker \in DOMAIN dataMap
  /\ Len(dataMap[ticker]) # 0
  /\ Len(HistoricalData(dataMap[ticker], date)) >= MinBars
  /\ getPriceAtDate(dataMap[ticker], date) # 0

generateRecommendations(tickers, assetType, dataMap, date, selectedStrategies) ==
  LET kept == SelectSeq(tickers, LAMBDA t : Recommendable(dataMap, t, date))
  IN [k \in 1..Len(kept) |->
        EngineRecommendation(kept[k], assetType, dataMap[kept[k]], date, selectedStrategies)]

\* ------------------------------------------------------------------------
\* generateRecommendations of the edge function
\* ------------------------------------------------------------------------
\* element k of the edge function's calculateSMA: 0 where the window is short
serveSMA(values, period, k) ==
  IF k - 1 < period - 1 THEN Num(0)
  ELSE Rat(SumRange(values, k - period + 1, k), period)

\* last element of the edge function's calculateRSI: one entry per change,
\* 50 for the first period changes, the window ends before the change itself
serveLastRSI(closes, period) ==
  LET c == Len(closes) - 1
  IN IF c - 1 < period THEN Num(50)
     ELSE LET gains == Rat(SumGains(closes, c - period, c - 1), period)
              losses == Rat(Abs(SumLosses(closes, c - period, c - 1)), period)
              rs == IF losses = Num(0) THEN Num(100) ELSE RatDiv(gains, losses)
          IN RatSub(Num(100), RatDiv(Num(100), RatAdd(Num(1), rs)))

ServeSignals(historicalData, strategies) ==
  LET closes == Closes(historicalData)
      n == Len(closes)
      maScore == IF RatGreater(serveSMA(closes, 20, n), serveSMA(closes, 50, n)) THEN 1 ELSE -1
      currentRSI == serveLastRSI(closes, RsiPeriod)
      rsiScore == IF RatLess(currentRSI, Num(30)) THEN 1
                  ELSE IF RatGreater(currentRSI, Num(70)) THEN -1 ELSE 0
  IN (IF Includes(strategies, "ma_crossover")
        THEN <<[name |-> KeyMA, rawScore |-> Num(maScore), normalizedScore |-> Num(maScore),
                direction |-> IF maScore > 0 THEN "buy" ELSE "sell"]>>
        ELSE <<>>)
     \o (IF Includes(strategies, "rsi_mean_reversion")
           THEN <<[name |-> KeyRSI, rawScore |-> Num(rsiScore),
                   normalizedScore |-> Num(rsiScore),
                   direction |-> IF rsiScore > 0 THEN "buy"
                                 ELSE IF rsiScore < 0 THEN "sell" ELSE "neutral"]>>
           ELSE <<>>)

ServeRecommendation(ticker, assetType, data, date, strategies) ==
  LET historicalData == HistoricalData(data, date)
      currentPrice == getPriceAtDate(data, date)
      prevPrice == IF Len(historicalData) > 1
                     THEN historicalData[Len(historicalData) - 1].close
                     ELSE currentPrice
      sigs == ServeSignals(historicalData, strategies)
      avgScore == RatDiv(RatSum([k \in 1..Len(sigs) |-> sigs[k].normalizedScore]),
                         Num(Len(sigs)))
  IN [ticker |-> ticker,
      assetType |-> assetType,
      recommendation |-> IF RatGreater(avgScore, Rat(1, 5)) THEN "BUY"
                         ELSE IF RatLess(avgScore, Rat(-1, 5)) THEN "SELL" ELSE "HOLD",
      score |-> avgScore,
      confidence |-> RatMul(RatAbs(avgScore), Num(50)),
      volatility |-> Num(0),
      currentPrice |-> Num(currentPrice),
      priceChangePct |-> RatMul(Rat(currentPrice - prevPrice, prevPrice), Num(100)),
      contributingSignals |-> [key \in {sigs[k].name : k \in 1..Len(sigs)} |->
                                 sigs[CHOOSE k \in 1..Len(sigs) : sigs[k].name = key]]]

serveGenerateRecommendations(tickers, assetType, dataMap, date, strategies) ==
  LET kept == SelectSeq(tickers, LAMBDA t : Recommendable(dataMap, t, date))
  IN [k \in 1..Len(kept) |->
        ServeRecommendation(kept[k], assetType, dataMap[kept[k]], date, strategies)]

\* the dates of the bars a generateRecommendations call reads for its
\* strategies, its volatility and its price change
BarsRead(tickers, dataMap, date) ==
  UNION {{HistoricalData(dataMap[t], date)[k].date :
            k \in 1..Len(HistoricalData(dataMap[t], date))}
           : t \in {u \in {tickers[k] : k \in 1..Len(tickers)} :
                      Recommendable(dataMap, u, date)}}

\* recommendations.filter(BUY).sort((a, b) => b.score - a.score).slice(0, 5)
TopPicks == 5

\* the picks taken in list order, without the sort
SelectBuysUnsorted(recommendations, engine) ==
  LET buys == SelectSeq(recommendations, LAMBDA r : r.recommendation = "BUY")
  IN SubSeq(buys, 1, IF Len(buys) < TopPicks THEN Len(buys) ELSE TopPicks)

SelectBuys(recommendations, engine) ==
  LET buys == SelectSeq(recommendations, LAMBDA r : r.recommendation = "BUY")
      sorted == ArraySort(buys, "score", engine)
  IN SubSeq(sorted, 1, IF Len(sorted) < TopPicks THEN Len(sorted) ELSE TopPicks)

\* ------------------------------------------------------------------------
\* Performance metrics of the result (calculatePerformanceMetrics)
\* ------------------------------------------------------------------------
\* the total return measured against the final value
calculateTotalReturnOnFinal(initialValue, finalValue) ==
  Rat(finalValue - initialValue, finalValue)

calculateTotalReturn(initialValue, finalValue) ==
  Rat(finalValue - initialValue, initialValue)

calculateWinRate(returns) ==
  IF Len(returns) = 0 THEN Num(0)
  ELSE Rat(Cardinality({k \in 1..Len(returns) : RatGreater(returns[k], Num(0))}),
           Len(returns))

\* Math.pow(base, exponent) - 1, times scale: the power is kept as the term
\* <<"pow", base, exponent, scale>>; a NaN or negative base gives NaN (the
\* exponents of the model are never integers), base 1 gives 0
PowMinusOne(base, exponent, scale) ==
  IF IsNaN(base) \/ base[1] < 0 THEN NaN
  ELSE IF base = Num(1) THEN Num(0)
  ELSE IF base = Num(0) THEN Num(0 - scale)
  ELSE <<"pow", base, exponent, scale>>

calculateCAGR(initialValue, finalValue, years) ==
  IF RatLeq(years, Num(0)) \/ initialValue <= 0 THEN Num(0)
  ELSE PowMinusOne(Rat(finalValue, initialValue), RatDiv(Num(1), years), 1)

\* ------------------------------------------------------------------------
\* IEEE 754 double arithmetic for the mean of the daily returns: a non-zero
\* number is sign * int(bits) * 2^lsb, bits being the 53 binary digits of the
\* significand, most significant (always 1) first.  Every operation computes
\* the exact result on binary digits and rounds it to nearest, ties to even.
\* ------------------------------------------------------------------------
Precision == 53

Zeros(n) == [k \in 1..n |-> 0]

RECURSIVE IntBits(_)
IntBits(n) == IF n = 0 THEN <<>> ELSE Append(IntBits(n \div 2), n % 2)

StripZeros(b) ==
  IF \A k \in 1..Len(b) : b[k] = 0 THEN <<>>
  ELSE LET first == CHOOSE k \in 1..Len(b) : b[k] = 1 /\ \A j \in 1..(k - 1) : b[j] = 0
       IN SubSeq(b, first, Len(b))

PadLeft(b, n) == Zeros(n - Len(b)) \o b

BitsLess(a, b) ==
  LET n == IF Len(a) > Len(b) THEN Len(a) ELSE Len(b)
      x == PadLeft(a, n)
      y == PadLeft(b, n)
  IN \E k \in 1..n : x[k] < y[k] /\ \A j \in 1..(k - 1) : x[j] = y[j]

\* a + b on digits: a carry enters digit j when a less significant digit
\* generates one and every digit in between passes it on
BitsAdd(a, b) ==
  LET n == (IF Len(a) > Len(b) THEN Len(a) ELSE Len(b)) + 1
      x == PadLeft(a, n)
      y == PadLeft(b, n)
      carry(j) == IF \E g \in (j + 1)..n :
                       /\ x[g] + y[g] = 2
                       /\ \A m \in (j + 1)..(g - 1) : x[m] + y[m] = 1
                  THEN 1 ELSE 0
  IN [j \in 1..n |-> (x[j] + y[j] + carry(j)) % 2]

\* a - b on digits, for a >= b
BitsSub(a, b) ==
  LET n == IF Len(a) > Len(b) THEN Len(a) ELSE Len(b)
      x == PadLeft(a, n)
      y == PadLeft(b, n)
      borrow(j) == IF \E g \in (j + 1)..n :
                        /\ x[g] < y[g]
                        /\ \A m \in (j + 1)..(g - 1) : x[m] = y[m]
                   THEN 1 ELSE 0
  IN [j \in 1..n |-> (x[j] - y[j] - borrow(j) + 2) % 2]

\* the value of at most ChunkDigits digits
RECURSIVE BitsValue(_)
BitsValue(b) ==
  IF b = <<>> THEN 0 ELSE 2 * BitsValue(SubSeq(b, 1, Len(b) - 1)) + b[Len(b)]

ChunkDigits == 8

\* long division of the first k chunks of digits by a small positive integer
RECURSIVE DivChunks(_, _, _)
DivChunks(b, n, k) ==
  IF k = 0 THEN [quotient |-> <<>>, remainder |-> 0]
  ELSE LET before == DivChunks(b, n, k - 1)
           chunk == SubSeq(b, (k - 1) * ChunkDigits + 1, k * ChunkDigits)
           value == before.remainder * 256 + BitsValue(chunk)
       IN [quotient |-> before.quotient \o PadLeft(IntBits(value \div n), ChunkDigits),
           remainder |-> value % n]

BitsDivSmall(b, n) ==
  LET chunks == (Len(b) + ChunkDigits - 1) \div ChunkDigits
  IN DivChunks(PadLeft(b, chunks * ChunkDigits), n, chunks)

FloatZero == [sign |-> 0, bits |-> <<>>, lsb |-> 0]

\* sign * int(digits) * 2^lsb (+ something below the last digit when sticky)
\* rounded to Precision digits
RoundNearestEven(sign, digits, lsb, sticky) ==
  LET b == StripZeros(digits)
  IN IF b = <<>> THEN FloatZero
     ELSE IF Len(b) <= Precision
       THEN [sign |-> sign, bits |-> b \o Zeros(Precision - Len(b)),
             lsb |-> lsb - (Precision - Len(b))]
     ELSE LET kept == SubSeq(b, 1, Precision)
              guard == b[Precision + 1]
              rest == sticky \/ \E k \in (Precision + 2)..Len(b) : b[k] = 1
              up == guard = 1 /\ (rest \/ kept[Precision] = 1)
              newLsb == lsb + (Len(b) - Precision)
              bumped == StripZeros(BitsAdd(kept, <<1>>))
          IN IF ~up THEN [sign |-> sign, bits |-> kept, lsb |-> newLsb]
             ELSE IF Len(bumped) > Precision
               THEN [sign |-> sign, bits |-> SubSeq(bumped, 1, Precision), lsb |-> newLsb + 1]
             ELSE [sign |-> sign, bits |-> bumped, lsb |-> newLsb]

\* p / q for two integers, q # 0
FloatQuotient(p, q) ==
  IF p = 0 THEN FloatZero
  ELSE LET guardDigits == Precision + 2 + Len(IntBits(Abs(q)))
           d == BitsDivSmall(IntBits(Abs(p)) \o Zeros(guardDigits), Abs(q))
       IN RoundNearestEven(Sign(p) * Sign(q), d.quotient, 0 - guardDigits, d.remainder # 0)

\* a / n for a double a and an integer n > 0
FloatOverInt(a, n) ==
  IF a.sign = 0 THEN FloatZero
  ELSE LET guardDigits == 2 + Len(IntBits(n))
           d == BitsDivSmall(a.bits \o Zeros(guardDigits), n)
       IN RoundNearestEven(a.sign, d.quotient, a.lsb - guardDigits, d.remainder # 0)

FloatAdd(a, b) ==
  IF a.sign = 0 THEN b
  ELSE IF b.sign = 0 THEN a
  ELSE LET lsb == IF a.lsb < b.lsb THEN a.lsb ELSE b.lsb
           x == a.bits \o Zeros(a.lsb - lsb)
           y == b.bits \o Zeros(b.lsb - lsb)
       IN IF a.sign = b.sign THEN RoundNearestEven(a.sign, BitsAdd(x, y), lsb, FALSE)
          ELSE IF BitsLess(x, y)
            THEN RoundNearestEven(b.sign, BitsSub(y, x), lsb, FALSE)
          ELSE RoundNearestEven(a.sign, BitsSub(x, y), lsb, FALSE)

\* numbers.reduce((sum, r) => sum + r, 0): adding 0 leaves a double as it is,
\* so only the non-zero terms are added, in their order
RECURSIVE FloatFold(_)
FloatFold(terms) ==
  IF terms = <<>> THEN FloatZero
  ELSE FloatAdd(FloatFold(SubSeq(terms, 1, Len(terms) - 1)), terms[Len(terms)])

FloatSum(numbers) == FloatFold(SelectSeq(numbers, LAMBDA r : r.sign # 0))

\* the daily returns of the curve, each a correctly rounded quotient
DailyReturns(curve) ==
  [k \in 1..(Len(curve) - 1) |->
     FloatQuotient(curve[k + 1].value - curve[k].value, curve[k].value)]

\* a point of value 0 before the last one makes a return 0 / 0 or x / 0 and
\* with it the deviation NaN.  Otherwise stdDev === 0 holds exactly when
\* every return equals the computed mean (a difference of two unequal doubles
\* of this size has a square above the smallest double); when it does not
\* hold, the result annualizedReturn / annualizedStdDev is kept as the term
\* <<"ratio", meanReturn, 252>>, its positive divisor left uncomputed
calculateSharpeRatio(curve) ==
  IF Len(curve) < 2 THEN Num(0)
  ELSE IF \E k \in 1..(Len(curve) - 1) : curve[k].value = 0 THEN NaN
  ELSE LET returns == DailyReturns(curve)
           meanReturn == FloatOverInt(FloatSum(returns), Len(returns))
       IN IF \A k \in 1..Len(returns) : returns[k] = meanReturn THEN Num(0)
          ELSE <<"ratio", meanReturn, 252>>

\* the highest value among points 1..k of the curve
PeakAt(curve, k) ==
  LET values == {curve[n].value : n \in 1..k}
  IN CHOOSE v \in values : \A w \in values : w <= v

RatSetMax(S) == CHOOSE r \in S : \A q \in S : ~RatGreater(q, r)

\* the largest drawdown that compares greater than 0, else 0
calculateMaxDrawdown(curve) ==
  IF Len(curve) = 0 THEN Num(0)
  ELSE LET drawdowns ==
             {Rat(PeakAt(curve, k) - curve[k].value, PeakAt(curve, k)) : k \in 1..Len(curve)}
       IN RatSetMax({Num(0)} \cup {d \in drawdowns : RatGreater(d, Num(0))})

\* (endDate - startDate) in milliseconds over 365.25 days
YearsBetween(first, last) == Rat((last - first) * 4, 1461)

calculatePerformanceMetrics(curve, returns) ==
  IF Len(curve) < 2
    THEN [totalReturn |-> Num(0), cagr |-> Num(0), sharpeRatio |-> Num(0),
          maxDrawdown |-> Num(0), winRate |-> Num(0)]
    ELSE LET initialValue == curve[1].value
             finalValue == curve[Len(curve)].value
             years == YearsBetween(curve[1].date, curve[Len(curve)].date)
         IN [totalReturn |-> calculateTotalReturn(initialValue, finalValue),
             cagr |-> calculateCAGR(initialValue, finalValue, years),
             sharpeRatio |-> calculateSharpeRatio(curve),
             maxDrawdown |-> calculateMaxDrawdown(curve),
             winRate |-> calculateWinRate(returns)]

\* the Sharpe ratio of the edge function, from the period returns; a period
\* return that is not finite makes stdDev NaN, and stdDev > 0 false.  As in
\* calculateSharpeRatio, stdDev is 0 exactly when every return equals the
\* computed mean, and the non-zero result is kept as a term
serveSharpeRatio(returns) ==
  IF Len(returns) <= 1 THEN Num(0)
  ELSE IF \E k \in 1..Len(returns) : ~IsFinite(returns[k]) THEN Num(0)
  ELSE LET doubles == [k \in 1..Len(returns) |-> FloatQuotient(returns[k][1], returns[k][2])]
           avgReturn == FloatOverInt(FloatSum(doubles), Len(doubles))
       IN IF \A k \in 1..Len(doubles) : doubles[k] = avgReturn THEN Num(0)
          ELSE <<"ratio", avgReturn, 12>>

serveCalculatePerformanceMetrics(curve, returns) ==
  IF Len(curve) = 0
    THEN [totalReturn |-> Num(0), cagr |-> Num(0), sharpeRatio |-> Num(0),
          maxDrawdown |-> Num(0), winRate |-> Num(0)]
    ELSE LET initialValue == curve[1].value
             finalValue == curve[Len(curve)].value
             years == Rat(curve[Len(curve)].date - curve[1].date, 365)
         IN [totalReturn |->
               RatMul(Rat(finalValue - initialValue, initialValue), Num(100)),
             cagr |->
               IF RatGreater(years, Num(0))
                 THEN PowMinusOne(Rat(finalValue, initialValue), RatDiv(Num(1), years), 100)
                 ELSE Num(0),
             sharpeRatio |-> serveSharpeRatio(returns),
             maxDrawdown |-> RatMul(calculateMaxDrawdown(curve), Num(100)),
             winRate |->
               IF Len(returns) > 0 THEN RatMul(calculateWinRate(returns), Num(100))
               ELSE Num(0)]

\* ------------------------------------------------------------------------
\* The calls the model makes: configurations, clocks and provider answers
\* ------------------------------------------------------------------------
Eleven == <<"A", "B", "A", "B", "A", "B", "A", "B", "A", "B", "A">>

BaseConfig ==
  [tickers |-> <<"A", "B">>, assetType |-> "stocks", strategies |-> <<"ma_crossover">>,
   startDate |-> 1, endDate |-> LastDay, rebalancePeriod |-> 2, initialCapital |-> 1000]

ShortConfig == [BaseConfig EXCEPT !.startDate = LastDay - 4]

Call(implementation, engine, cfg, today, answers) ==
  [impl |-> implementation, sortEngine |-> engine, config |-> cfg, now |-> today,
   provider |-> [A |-> answers[1], B |-> answers[2]]]

\* two tickers over the whole range, with every kind of provider answer
MarketCalls ==
  {Call(im, "v8", [BaseConfig EXCEPT !.rebalancePeriod = p], LastDay, a) :
     im \in {"engine", "serve"}, p \in {2, 3},
     a \in {<<"up", "up">>, <<"gap", "up">>, <<"up", "down">>, <<"gap", "fail">>,
            <<"late", "gap">>}}

StrategyCalls ==
  {Call(im, "v8", [BaseConfig EXCEPT !.strategies = st], LastDay, a) :
     im \in {"engine", "serve"},
     st \in {<<"ma_crossover", "rsi_mean_reversion">>, <<"rsi_mean_reversion">>},
     a \in {<<"gap", "up">>, <<"up", "down">>}}

CapitalCalls ==
  {Call(im, "v8", [BaseConfig EXCEPT !.initialCapital = c], LastDay, <<"gap", "up">>) :
     im \in {"engine", "serve"}, c \in {60, 0}}
  \cup {Call(im, "v8", [BaseConfig EXCEPT !.initialCapital = 100], LastDay,
              <<"steep", "up">>) : im \in {"engine", "serve"}}
  \cup {Call(im, "v8", [ShortConfig EXCEPT !.initialCapital = -50], LastDay, <<"up", "up">>) :
          im \in {"engine", "serve"}}

TickerCalls ==
  {Call(im, e, [BaseConfig EXCEPT !.tickers = t], LastDay, <<"up", "up">>) :
     im \in {"engine", "serve"}, e \in SortEngines, t \in {<<"A", "A">>, Eleven}}
  \cup {Call(im, "v8", [BaseConfig EXCEPT !.tickers = t], LastDay, <<"gap", "up">>) :
          im \in {"engine", "serve"}, t \in {<<>>, <<"A">>}}

PeriodCalls ==
  {Call(im, "v8", [BaseConfig EXCEPT !.rebalancePeriod = 0], LastDay, <<"gap", "up">>) :
     im \in {"engine", "serve"}}
  \cup {Call(im, "v8", [ShortConfig EXCEPT !.rebalancePeriod = p], LastDay, <<"up", "up">>) :
          im \in {"engine", "serve"}, p \in {-1, 30}}

RangeCalls ==
  {Call(im, "v8", [BaseConfig EXCEPT !.startDate = r[1], !.endDate = r[2]], LastDay,
        <<"up", "gap">>) :
     im \in {"engine", "serve"}, r \in {<<LastDay - 1, LastDay - 1>>, <<LastDay, LastDay - 3>>}}
  \cup {Call(im, "v8", ShortConfig, LastDay - 1, <<"up", "up">>) : im \in {"engine", "serve"}}
  \cup {Call(im, "v8", [ShortConfig EXCEPT !.strategies = <<>>], LastDay, <<"up", "up">>) :
          im \in {"engine", "serve"}}
  \cup {Call(im, "v8", ShortConfig, LastDay, <<"fail", "fail">>) : im \in {"engine", "serve"}}
  \cup {Call(im, "v8", [BaseConfig EXCEPT !.startDate = LastDay - 731], LastDay,
              <<"up", "up">>) : im \in {"engine", "serve"}}

\* seven distinct tickers, six of them rising at three different rates
ManyTickerCalls ==
  {[impl |-> im, sortEngine |-> e,
    config |-> [BaseConfig EXCEPT !.tickers = <<"A", "B", "C", "D", "E", "F", "G">>,
                                  !.rebalancePeriod = 3],
    now |-> LastDay,
    provider |-> [A |-> "mild", B |-> "up", C |-> "down", D |-> "up", E |-> "steep",
                  F |-> "mild", G |-> "steep"]] :
     im \in {"engine", "serve"}, e \in SortEngines}

\* two rising tickers, ma_crossover only, a rebalance every 30 days
EndToEndConfig == [BaseConfig EXCEPT !.initialCapital = 100000, !.rebalancePeriod = 30]

EndToEndCalls ==
  {Call(im, "v8", EndToEndConfig, LastDay, <<"up", "steep">>) : im \in {"engine", "serve"}}

Calls ==
  MarketCalls \cup StrategyCalls \cup CapitalCalls \cup TickerCalls \cup PeriodCalls
    \cup RangeCalls \cup ManyTickerCalls \cup EndToEndCalls

\* ------------------------------------------------------------------------
\* The backtest: runBacktest of engine.ts and the handler of the edge function
\* ------------------------------------------------------------------------
BacktestInit ==
  /\ \E call \in Calls :
       /\ impl = call.impl
       /\ sortEngine = call.sortEngine
       /\ config = call.config
       /\ now = call.now
       /\ provider = call.provider
  /\ RankIdle
  /\ AggIdle
  /\ SeriesIdle
  /\ phase = "Initializing"
  /\ NotStarted

\* the validation of the edge function; runBacktest of engine.ts has none
ValidationError(cfg, today) ==
  IF Len(cfg.tickers) = 0 THEN "At least one ticker is required"
  ELSE IF Len(cfg.tickers) > 10 THEN "Maximum 10 tickers allowed"
  ELSE IF Len(cfg.strategies) = 0 THEN "At least one strategy is required"
  ELSE IF cfg.endDate <= cfg.startDate THEN "End date must be after start date"
  ELSE IF cfg.endDate > today THEN "End date cannot be in the future"
  ELSE ""

Fail(message) ==
  /\ phase' = "Failed"
  /\ error' = message

Validate ==
  /\ phase = "Initializing"
  /\ IF impl = "serve" /\ ValidationError(config, now) # ""
       THEN Fail(ValidationError(config, now))
       ELSE phase' = "Fetching" /\ error' = error
  /\ UNCHANGED <<seriesVars, sortEngine, rankVars, aggVars, callVars, fetchCalls, tickerDataMap,
                 sortedDates, i, step, cash, holdings, equityCurve, trades, periodReturns,
                 lastRebalanceDate, portfolioValueAtLastRebalance, buyRecommendations,
                 capitalPerAsset, pick, metrics, rebalanceLog, handed>>

\* one iteration of the fetch loop
FetchedData(ticker) ==
  IF impl = "engine"
    THEN IF fetchHistoricalData(provider[ticker]).threw THEN Threw
         ELSE Returned(InRange(fetchHistoricalData(provider[ticker]).data,
                               config.startDate, config.endDate))
    ELSE IF provider[ticker] = "fail" THEN Threw
         ELSE LET filteredData ==
                    PositiveCloses(InRange(ProviderSeries(provider[ticker]),
                                           config.startDate, config.endDate))
              IN IF Len(filteredData) > 0 THEN Returned(filteredData) ELSE Threw

Fetch ==
  /\ phase = "Fetching"
  /\ fetchCalls < Len(config.tickers)
  /\ LET ticker == config.tickers[fetchCalls + 1]
     IN tickerDataMap' =
          IF FetchedData(ticker).threw THEN tickerDataMap
          ELSE (ticker :> FetchedData(ticker).data) @@ tickerDataMap
  /\ fetchCalls' = fetchCalls + 1
  /\ UNCHANGED <<seriesVars, sortEngine, rankVars, aggVars, callVars, phase, error,
                 sortedDates, i, step, cash, holdings, equityCurve, trades, periodReturns,
                 lastRebalanceDate, portfolioValueAtLastRebalance, buyRecommendations,
                 capitalPerAsset, pick, metrics, rebalanceLog, handed>>

\* the run given up as soon as one ticker of the list has no data
NoDataIfAnyMissing ==
  \/ AllDates(tickerDataMap) = {}
  \/ \E k \in 1..Len(config.tickers) : config.tickers[k] \notin DOMAIN tickerDataMap

NoData ==
  IF impl = "engine" THEN AllDates(tickerDataMap) = {}
  ELSE DOMAIN tickerDataMap = {}

NoDataMessage ==
  IF impl = "engine" THEN "No data available for backtest"
  ELSE "No valid data available for any ticker"

\* the date axis and the initial portfolio
StartSimulation ==
  /\ phase = "Fetching"
  /\ fetchCalls = Len(config.tickers)
  /\ IF NoData
       THEN /\ Fail(NoDataMessage)
            /\ UNCHANGED <<sortedDates, cash, lastRebalanceDate,
                           portfolioValueAtLastRebalance>>
       ELSE /\ phase' = "Simulating"
            /\ error' = error
            /\ sortedDates' = SortedDates(tickerDataMap)
            /\ cash' = config.initialCapital
            /\ lastRebalanceDate' = sortedDates'[1]
            /\ portfolioValueAtLastRebalance' = config.initialCapital
  /\ UNCHANGED <<seriesVars, sortEngine, rankVars, aggVars, callVars, fetchCalls, tickerDataMap,
                 i, step, holdings, equityCurve, trades, periodReturns,
                 buyRecommendations, capitalPerAsset, pick, metrics, rebalanceLog, handed>>

date == sortedDates[i + 1]

daysSinceRebalance == date - lastRebalanceDate

\* the rebalance test with > in place of >=
RebalanceDueStrict == daysSinceRebalance > config.rebalancePeriod \/ i = 0

RebalanceDue == daysSinceRebalance >= config.rebalancePeriod \/ i = 0

\* the end of an iteration: the daily equity point, then the next date
RecordAndAdvance(c, held) ==
  /\ equityCurve' =
       Append(equityCurve,
              [date |-> date, value |-> calculatePortfolioValue(c, held, tickerDataMap, date)])
  /\ i' = i + 1
  /\ step' = "check"
  /\ phase' = IF i + 1 < Len(sortedDates) THEN "Simulating" ELSE "Finalizing"

\* an iteration without rebalance that moves lastRebalanceDate to the date
HoldResettingDate ==
  /\ phase = "Simulating"
  /\ step = "check"
  /\ ~RebalanceDue
  /\ RecordAndAdvance(cash, holdings)
  /\ lastRebalanceDate' = date
  /\ UNCHANGED <<seriesVars, sortEngine, rankVars, aggVars, callVars, error, fetchCalls, tickerDataMap,
                 sortedDates, cash, holdings, trades, periodReturns,
                 portfolioValueAtLastRebalance, buyRecommendations,
                 capitalPerAsset, pick, metrics, rebalanceLog, handed>>

\* an iteration on a date that is not a rebalance date
Hold ==
  /\ phase = "Simulating"
  /\ step = "check"
  /\ ~RebalanceDue
  /\ RecordAndAdvance(cash, holdings)
  /\ UNCHANGED <<seriesVars, sortEngine, rankVars, aggVars, callVars, error, fetchCalls, tickerDataMap,
                 sortedDates, cash, holdings, trades, periodReturns,
                 lastRebalanceDate, portfolioValueAtLastRebalance, buyRecommendations,
                 capitalPerAsset, pick, metrics, rebalanceLog, handed>>

RECURSIVE SaleProceeds(_, _, _)
SaleProceeds(held, dataMap, day) ==
  IF held = <<>> THEN 0
  ELSE SaleProceeds(SubSeq(held, 1, Len(held) - 1), dataMap, day)
         + (IF getPriceAtDate(dataMap[held[Len(held)][1]], day) > 0
              THEN held[Len(held)][2] * getPriceAtDate(dataMap[held[Len(held)][1]], day)
              ELSE 0)

\* a sale logged for every holding, priced or not
SellTradesUnguarded(held, dataMap, day) ==
  [k \in 1..Len(held) |->
     [date |-> day, ticker |-> held[k][1], action |-> "sell",
      price |-> getPriceAtDate(dataMap[held[k][1]], day),
      quantity |-> held[k][2],
      value |-> held[k][2] * getPriceAtDate(dataMap[held[k][1]], day)]]

SellTrades(held, dataMap, day) ==
  LET sold == SelectSeq(held, LAMBDA h : getPriceAtDate(dataMap[h[1]], day) > 0)
  IN [k \in 1..Len(sold) |->
        [date |-> day, ticker |-> sold[k][1], action |-> "sell",
         price |-> getPriceAtDate(dataMap[sold[k][1]], day),
         quantity |-> sold[k][2],
         value |-> sold[k][2] * getPriceAtDate(dataMap[sold[k][1]], day)]]

\* how the liquidation loop leaves the holdings: holdings = {}
\* a liquidation that leaves the holdings in place
AfterLiquidationKeeping(held, dataMap, day) == held

AfterLiquidation(held, dataMap, day) == <<>>

\* a rebalance, first part: the period return and the sale of every holding
Liquidate ==
  /\ phase = "Simulating"
  /\ step = "check"
  /\ RebalanceDue
  /\ LET currentPortfolioValue == calculatePortfolioValue(cash, holdings, tickerDataMap, date)
     IN periodReturns' =
          IF i > 0
            THEN Append(periodReturns,
                        Rat(currentPortfolioValue - portfolioValueAtLastRebalance,
                            portfolioValueAtLastRebalance))
            ELSE periodReturns
  /\ cash' = cash + SaleProceeds(holdings, tickerDataMap, date)
  /\ trades' = trades \o SellTrades(holdings, tickerDataMap, date)
  /\ holdings' = AfterLiquidation(holdings, tickerDataMap, date)
  /\ rebalanceLog' = Append(rebalanceLog, date)
  /\ step' = "select"
  /\ UNCHANGED <<seriesVars, sortEngine, rankVars, aggVars, callVars, phase, error, fetchCalls,
                 tickerDataMap, sortedDates, i, equityCurve,
                 lastRebalanceDate, portfolioValueAtLastRebalance, buyRecommendations,
                 capitalPerAsset, pick, metrics, handed>>

Recommendations(dataMap, day) ==
  IF impl = "engine"
    THEN generateRecommendations(config.tickers, config.assetType, dataMap, day,
                                 config.strategies)
    ELSE serveGenerateRecommendations(config.tickers, config.assetType, dataMap, day,
                                      config.strategies)

\* a rebalance, second part: the recommendations and the picks
Select ==
  /\ phase = "Simulating"
  /\ step = "select"
  /\ LET buys == SelectBuys(Recommendations(tickerDataMap, date), sortEngine)
     IN /\ buyRecommendations' = buys
        /\ capitalPerAsset' = IF Len(buys) > 0 THEN Rat(cash, Len(buys)) ELSE capitalPerAsset
  /\ handed' = BarsRead(config.tickers, tickerDataMap, date)
  /\ pick' = 0
  /\ step' = "buy"
  /\ UNCHANGED <<seriesVars, sortEngine, rankVars, aggVars, callVars, phase, error, fetchCalls,
                 tickerDataMap, sortedDates, i, cash, holdings, equityCurve, trades,
                 periodReturns, lastRebalanceDate, portfolioValueAtLastRebalance,
                 metrics, rebalanceLog>>

\* a rebalance, third part: one iteration of the loop over the picks
Buy ==
  /\ phase = "Simulating"
  /\ step = "buy"
  /\ pick < Len(buyRecommendations)
  /\ LET rec == buyRecommendations[pick + 1]
         price == getPriceAtDate(tickerDataMap[rec.ticker], date)
         quantity == IF price > 0 THEN Floor(RatDiv(capitalPerAsset, Num(price))) ELSE 0
     IN IF price > 0 /\ quantity > 0
          THEN /\ cash' = cash - quantity * price
               /\ holdings' = PutHolding(holdings, rec.ticker, quantity)
               /\ trades' = Append(trades,
                                   [date |-> date, ticker |-> rec.ticker, action |-> "buy",
                                    price |-> price, quantity |-> quantity,
                                    value |-> quantity * price])
          ELSE UNCHANGED <<cash, holdings, trades>>
  /\ pick' = pick + 1
  /\ UNCHANGED <<seriesVars, sortEngine, rankVars, aggVars, callVars, phase, error, fetchCalls,
                 tickerDataMap, sortedDates, i, step, equityCurve, periodReturns,
                 lastRebalanceDate, portfolioValueAtLastRebalance, buyRecommendations,
                 capitalPerAsset, metrics, rebalanceLog, handed>>

\* a rebalance, last part: the new baseline, then the end of the iteration
FinishRebalance ==
  /\ phase = "Simulating"
  /\ step = "buy"
  /\ pick = Len(buyRecommendations)
  /\ lastRebalanceDate' = date
  /\ portfolioValueAtLastRebalance' =
       calculatePortfolioValue(cash, holdings, tickerDataMap, date)
  /\ RecordAndAdvance(cash, holdings)
  /\ UNCHANGED <<seriesVars, sortEngine, rankVars, aggVars, callVars, error, fetchCalls, tickerDataMap,
                 sortedDates, cash, holdings, trades, periodReturns, buyRecommendations,
                 capitalPerAsset, pick, metrics, rebalanceLog, handed>>

Finalize ==
  /\ phase = "Finalizing"
  /\ metrics' = IF impl = "engine"
                  THEN calculatePerformanceMetrics(equityCurve, periodReturns)
                  ELSE serveCalculatePerformanceMetrics(equityCurve, periodReturns)
  /\ phase' = "Done"
  /\ UNCHANGED <<seriesVars, sortEngine, rankVars, aggVars, callVars, error, fetchCalls, tickerDataMap,
                 sortedDates, i, step, cash, holdings, equityCurve, trades, periodReturns,
                 lastRebalanceDate, portfolioValueAtLastRebalance, buyRecommendations,
                 capitalPerAsset, pick, rebalanceLog, handed>>

Next ==
  \/ Validate
  \/ Fetch
  \/ StartSimulation
  \/ Hold
  \/ Liquidate
  \/ Select
  \/ Buy
  \/ FinishRebalance
  \/ Finalize

Init == BacktestInit

Spec == Init /\ [][Next]_vars

\* ------------------------------------------------------------------------
\* Claims about rankRecommendations
\* ------------------------------------------------------------------------
ScoreGap(a, b) == RatAbs(RatSub(RatAbs(a.score), RatAbs(b.score)))

Near(a, b) == ~RatGreater(ScoreGap(a, b), RankTolerance)

\* the 0.01 tie relation is transitive on the list: the comparator is a
\* consistent ordering of its elements
TiesTransitive(L) ==
  \A x, y, z \in 1..Len(L) :
    (Near(L[x], L[y]) /\ Near(L[y], L[z])) => Near(L[x], L[z])

\* C5 (as stated): rank(rank(L)) has the same order as rank(L), for every L.
RankIdempotent ==
  rpc = "reranked" => reranked = ranked

RankIdempotentWitness ==
  /\ rpc = "reranked"
  /\ Len(recs) >= 3
  /\ ranked # recs
  /\ ~TiesTransitive(recs)

\* C6 (as stated): every pair of the output is ordered by the ranking rule.
PairOrdered(a, b) ==
  /\ RatGreater(ScoreGap(a, b), RankTolerance)
       => RatGreater(RatAbs(a.score), RatAbs(b.score))
  /\ RatLess(ScoreGap(a, b), RankTolerance)
       => RatGeq(a.confidence, b.confidence)

RankPairsOrdered ==
  rpc # "input" =>
    \A x, y \in 1..Len(ranked) : x < y => PairOrdered(ranked[x], ranked[y])

\* C6 (amended): when the 0.01 tie relation is transitive on the list, every
\* pair of the output is ordered by the ranking rule: the larger |score|
\* first when the |score| differ by more than 0.01, the higher confidence
\* first when they differ by less.
RankPairsOrderedWhenConsistent ==
  (rpc # "input" /\ TiesTransitive(recs)) =>
    \A x, y \in 1..Len(ranked) : x < y => PairOrdered(ranked[x], ranked[y])

RankPairsWitness ==
  /\ rpc = "ranked"
  /\ TiesTransitive(recs)
  /\ ranked # recs
  /\ \E x, y \in 1..Len(ranked) :
       /\ x < y
       /\ RatLess(ranked[x].score, Num(0))
       /\ RatGreater(ranked[y].score, Num(0))
       /\ RatGreater(ScoreGap(ranked[x], ranked[y]), RankTolerance)
  /\ \E x, y \in 1..Len(ranked) :
       /\ x < y
       /\ Near(ranked[x], ranked[y])
       /\ ranked[x].score # ranked[y].score
       /\ RatGreater(ranked[x].confidence, ranked[y].confidence)

\* ------------------------------------------------------------------------
\* Claims about aggregateSignals
\* ------------------------------------------------------------------------
ScoreOf(name) ==
  LET k == CHOOSE n \in 1..Len(signals) : signals[n].name = name
  IN signals[k].normalizedScore

AllFourSignals == Len(signals) = 4

\* C4 (as stated): given the signals of the four built-in strategies and the
\* default weights, every signal is matched to its weight, so that
\* combinedScore = (1.0*ma + 1.0*rsi + 1.0*mf + 0.5*ml) / 3.5.
AggregateUsesAllFour ==
  (apc = "done" /\ AllFourSignals /\ strategyWeights = DEFAULT_WEIGHTS) =>
     /\ \A w \in 1..Len(DEFAULT_WEIGHTS) :
          DEFAULT_WEIGHTS[w][1] \in DOMAIN recommendation.contributingSignals
     /\ recommendation.score =
          RatDiv(RatSum(<<ScoreOf(NameMA), ScoreOf(NameRSI), ScoreOf(NameMF),
                          RatMul(Rat(1, 2), ScoreOf(NameML))>>),
                 Rat(7, 2))

\* the weights whose key some supplied signal has, after normalisation
MatchedWeights ==
  LET keys == {SignalKey(signals[n].name) : n \in 1..Len(signals)}
  IN SelectSeq(strategyWeights, LAMBDA w : w[1] \in keys)

WeightSum(matched) == RatSum([k \in 1..Len(matched) |-> matched[k][2]])

WeightedMean(matched, byKey) ==
  RatDiv(RatSum([k \in 1..Len(matched) |->
                   RatMul(matched[k][2], byKey[matched[k][1]].normalizedScore)]),
         WeightSum(matched))

\* C19: aggregateSignals never divides by zero: its score and confidence are
\* finite numbers; when no signal matches a key of the weights, or the
\* matched weights sum to 0, the score is 0 and the direction HOLD; with no
\* signal at all the confidence is 0 too.
AggregateGuardsZeroWeight ==
  apc = "done" =>
    /\ IsFinite(recommendation.score)
    /\ IsFinite(recommendation.confidence)
    /\ WeightSum(MatchedWeights) = Num(0) =>
         (recommendation.score = Num(0) /\ recommendation.recommendation = "HOLD")
    /\ signals = <<>> => recommendation.confidence = Num(0)

\* two matched signals with non-zero scores whose weights cancel
ZeroWeightWitness ==
  /\ apc = "done"
  /\ Len(signals) = 2
  /\ \A n \in 1..Len(signals) : signals[n].normalizedScore = Rat(2, 1)
  /\ recommendation.score = Num(0)
  /\ recommendation.recommendation = "HOLD"
  /\ RatGreater(recommendation.confidence, Num(0))
  /\ LET matched == MatchedWeights
     IN /\ Len(matched) = 2
        /\ matched[1][2] # Num(0)
        /\ WeightSum(matched) = Num(0)

\* C20: the direction is BUY iff combinedScore >= 0.5, SELL iff
\* combinedScore <= -0.5, and HOLD otherwise, combinedScore being the
\* weighted mean of the matched signals (0 without positive weight).
DirectionFollowsThresholds ==
  apc = "done" =>
    /\ recommendation.recommendation \in {"BUY", "SELL", "HOLD"}
    /\ recommendation.recommendation = "BUY" <=> RatGeq(recommendation.score, Rat(1, 2))
    /\ recommendation.recommendation = "SELL" <=> RatLeq(recommendation.score, Rat(-1, 2))
    /\ LET matched == MatchedWeights
       IN recommendation.score =
            (IF RatGreater(WeightSum(matched), Num(0))
               THEN WeightedMean(matched, recommendation.contributingSignals)
               ELSE Num(0))

\* a combined score of exactly 0.5 out of two different signals
ThresholdWitness ==
  /\ apc = "done"
  /\ Len(signals) = 2
  /\ recommendation.score = Rat(1, 2)
  /\ recommendation.recommendation = "BUY"
  /\ \E n \in 1..Len(signals) : signals[n].normalizedScore # Rat(1, 2)
  /\ Len(MatchedWeights) = 2

InBand(x, lo, hi) == RatGeq(x, Num(lo)) /\ RatLeq(x, Num(hi))

\* C21: the confidence returned by aggregateSignals lies in [0, 100] for
\* every signal list, combined score and volatility; for volatility >= 0 the
\* score factor lies in [0, 40], the agreement factor in [0, 40] and the
\* volatility factor in [0, 20].
ConfidenceClamped ==
  apc = "done" =>
    /\ InBand(recommendation.confidence, 0, 100)
    /\ (signals # <<>> /\ RatGeq(volatility, Num(0))) =>
         /\ InBand(scoreFactor(recommendation.score), 0, 40)
         /\ InBand(agreementFactor(signals), 0, 40)
         /\ InBand(volatilityFactor(volatility), 0, 20)
         /\ recommendation.confidence =
              RatAdd(RatAdd(scoreFactor(recommendation.score), agreementFactor(signals)),
                     volatilityFactor(volatility))

\* a huge volatility takes the whole volatility factor away, and no more
ConfidenceWitness ==
  /\ apc = "done"
  /\ volatility = Num(1000)
  /\ Len(signals) = 3
  /\ volatilityFactor(volatility) = Num(0)
  /\ scoreFactor(recommendation.score) = Num(40)
  /\ agreementFactor(signals) = Num(40)
  /\ recommendation.confidence = Num(80)

\* ------------------------------------------------------------------------
\* Claims about the strategies and calculateVolatility
\* ------------------------------------------------------------------------
IsInsufficient(signal) ==
  /\ signal.direction = "neutral"
  /\ signal.rawScore = Num(0)
  /\ signal.normalizedScore = Num(0)
  /\ signal.meta = "Insufficient data"

\* C22: each strategy, given a series shorter than its minimum (MA crossover
\* 200, RSI 15, multi-factor 126, ML 60), the empty series included, returns
\* direction neutral, rawScore = normalizedScore = 0 and a diagnostic in meta.
ShortSeriesNeutral ==
  spc = "done" =>
    /\ Len(seriesCloses) < LongWindow => IsInsufficient(analysis.ma)
    /\ Len(seriesCloses) < RsiPeriod + 1 => IsInsufficient(analysis.rsi)
    /\ Len(seriesCloses) < MomentumPeriod => IsInsufficient(analysis.mf)
    /\ Len(seriesCloses) < MlMinBars => IsInsufficient(analysis.ml)
    /\ analysis.ma.name = NameMA
    /\ analysis.rsi.name = NameRSI
    /\ analysis.mf.name = NameMF
    /\ analysis.ml.name = NameML

\* one bar short of the MA gate: MA crossover declines, the other three run
ShortSeriesWitness ==
  /\ spc = "done"
  /\ Len(seriesCloses) = LongWindow - 1
  /\ IsInsufficient(analysis.ma)
  /\ analysis.rsi.meta = "values"
  /\ analysis.mf.direction = "buy"
  /\ analysis.ml.meta = "values"

\* C23 (as stated): for every non-empty series of positive prices and every
\* lookback period, calculateVolatility returns a number >= 0, never NaN, and
\* exactly 0 when the series is shorter than the period.
VolatilityDefined ==
  (spc = "done" /\ seriesCloses # <<>>) =>
    /\ ~IsNaN(analysis.volatility)
    /\ RatGeq(analysis.volatility, Num(0))
    /\ Len(seriesCloses) < lookbackPeriod => analysis.volatility = Num(0)

\* ------------------------------------------------------------------------
\* Claims about the backtest
\* ------------------------------------------------------------------------
Started == phase \in {"Simulating", "Finalizing", "Done"}

\* C1 (as stated): a config with more than 10 tickers fails with "Maximum 10
\* tickers allowed" and no history fetch is issued before the failure.
TooManyTickersRejected ==
  (Len(config.tickers) > 10 /\ phase # "Initializing")
     => (phase = "Failed" /\ error = "Maximum 10 tickers allowed" /\ fetchCalls = 0)

\* every ticker's bars dated up to the day, and nothing else
KnownAt(dataMap, day) ==
  [t \in DOMAIN dataMap |-> SelectSeq(dataMap[t], LAMBDA b : b.date <= day)]

FutureBars ==
  \E t \in DOMAIN tickerDataMap :
    \E k \in 1..Len(tickerDataMap[t]) : tickerDataMap[t][k].date > date

\* C2: at a rebalance on date D the bars handed to the strategies, the
\* volatility and the price change are all dated <= D, and the picks are the
\* picks computed from the history with every bar dated > D removed.
NoLookAhead ==
  (phase = "Simulating" /\ step = "buy") =>
     /\ \A d \in handed : d <= date
     /\ pick = 0 =>
          buyRecommendations =
            SelectBuys(Recommendations(KnownAt(tickerDataMap, date), date), sortEngine)

NoLookAheadWitness ==
  /\ phase = "Simulating"
  /\ step = "buy"
  /\ pick = 0
  /\ Len(buyRecommendations) > 0
  /\ handed # {}
  /\ FutureBars

Holds(held, pair) == \E k \in 1..Len(held) : held[k] = pair

Sold(log, ticker, day) ==
  \E k \in 1..Len(log) :
    log[k].ticker = ticker /\ log[k].date = day /\ log[k].action = "sell"

\* C3 (as stated): in the liquidation of a rebalance, a held ticker with no
\* price on the date is not sold and its quantity remains in holdings.
StrandedHoldingKept ==
  [][(phase = "Simulating" /\ step = "check" /\ step' = "select") =>
       \A k \in 1..Len(holdings) :
         getPriceAtDate(tickerDataMap[holdings[k][1]], date) = 0 =>
           /\ ~Sold(trades', holdings[k][1], date)
           /\ Holds(holdings', holdings[k])]_vars

\* C7 (as stated): cash >= 0 in every state of the simulation.
CashNeverNegative == Started => cash >= 0

DatesBefore(d) == {e \in AllDates(tickerDataMap) : e < d}

\* C8: the equity curve has one point per distinct date of the union of the
\* tickers' in-range bars, in strictly ascending order: point k carries the
\* k-th date of the union, and a finished run has a point for every date.
EquityCurveFollowsDates ==
  /\ Len(equityCurve) > 0 =>
       LET d == equityCurve[Len(equityCurve)].date
       IN /\ d \in AllDates(tickerDataMap)
          /\ Cardinality(DatesBefore(d)) = Len(equityCurve) - 1
          /\ Len(equityCurve) > 1 => equityCurve[Len(equityCurve) - 1].date < d
  /\ phase = "Done" => Len(equityCurve) = Cardinality(AllDates(tickerDataMap))

EquityCurveWitness ==
  /\ phase = "Done"
  /\ Len(equityCurve) > MinBars
  /\ \E t, u \in DOMAIN tickerDataMap :
       \E k \in 1..Len(tickerDataMap[t]) :
         \A m \in 1..Len(tickerDataMap[u]) : tickerDataMap[u][m].date # tickerDataMap[t][k].date

Rebalanced(d) == \E j \in 1..Len(rebalanceLog) : rebalanceLog[j] = d

RebalancesBefore(d) == {rebalanceLog[j] : j \in 1..Len(rebalanceLog)} \cap 0..(d - 1)

Latest(S) == CHOOSE r \in S : \A q \in S : q <= r

\* C9: a date is a rebalance date iff it is the first simulated date or lies
\* at least rebalancePeriod days after the last rebalance before it; so for
\* rebalancePeriod > 0 consecutive rebalance dates are at least
\* rebalancePeriod days apart.
RebalanceOnSchedule ==
  Len(equityCurve) > 0 =>
    LET d == equityCurve[Len(equityCurve)].date
    IN /\ Rebalanced(d) <=>
            \/ Len(equityCurve) = 1
            \/ d - Latest(RebalancesBefore(d)) >= config.rebalancePeriod
       /\ (config.rebalancePeriod > 0 /\ Rebalanced(d) /\ RebalancesBefore(d) # {})
            => d - Latest(RebalancesBefore(d)) >= config.rebalancePeriod

RebalanceWitness ==
  /\ phase = "Done"
  /\ config.rebalancePeriod = 3
  /\ Len(rebalanceLog) > 2
  /\ \E k \in 2..Len(rebalanceLog) : rebalanceLog[k] - rebalanceLog[k - 1] > 3
  /\ \E k \in 1..Len(equityCurve) : ~Rebalanced(equityCurve[k].date)

ValidationMessages ==
  {"At least one ticker is required", "Maximum 10 tickers allowed",
   "At least one strategy is required", "End date must be after start date",
   "End date cannot be in the future"}

Rejected == phase = "Failed" /\ error \in ValidationMessages

\* the in-range days on which the provider has a bar of the ticker
InRangeDays(t) ==
  IF provider[t] = "fail" THEN {}
  ELSE {ProviderSeries(provider[t])[k].date : k \in 1..Len(ProviderSeries(provider[t]))}
         \cap config.startDate..config.endDate

Contributors == {t \in {config.tickers[k] : k \in 1..Len(config.tickers)} : InRangeDays(t) # {}}

\* C11: a failed fetch drops its ticker only: every ticker is fetched, the
\* tickers with in-range bars all contribute their dates, and the run fails,
\* with no equity curve, trades or metrics, exactly when no ticker
\* contributes an in-range bar.
FetchFailureIsolated ==
  (phase \in {"Failed", "Simulating", "Finalizing", "Done"} /\ ~Rejected) =>
     /\ fetchCalls = Len(config.tickers)
     /\ (phase = "Failed") <=> (Contributors = {})
     /\ phase = "Failed" => (equityCurve = <<>> /\ trades = <<>> /\ metrics = <<>>)
     /\ phase # "Failed" =>
          \A t \in Contributors :
            InRangeDays(t) \subseteq {sortedDates[k] : k \in 1..Len(sortedDates)}

FetchFailureWitness ==
  /\ phase = "Done"
  /\ Len(config.tickers) = 2
  /\ provider[config.tickers[2]] = "fail"
  /\ Len(equityCurve) > MinBars
  /\ Len(trades) > 0

NothingReturned == equityCurve = <<>> /\ trades = <<>> /\ metrics = <<>>

\* C12 (as stated): a config whose endDate is equal to or earlier than its
\* startDate fails with "End date must be after start date" before any
\* fetch, and returns no equity curve, trades or metrics.
EndNotAfterStartRejected ==
  (/\ config.endDate <= config.startDate
   /\ Len(config.tickers) \in 1..10
   /\ Len(config.strategies) > 0
   /\ phase \notin {"idle", "Initializing"})
     => /\ phase = "Failed"
        /\ error = "End date must be after start date"
        /\ fetchCalls = 0
        /\ NothingReturned

\* C13 (as stated): a config whose date span exceeds 730 days, whose
\* initialCapital is <= 0 or whose rebalancePeriod is <= 0 is rejected with a
\* validation error before any fetch and without simulating.
InvalidConfigRejected ==
  (/\ \/ config.endDate - config.startDate > 730
      \/ config.initialCapital <= 0
      \/ config.rebalancePeriod <= 0
   /\ phase \notin {"idle", "Initializing"})
     => /\ phase = "Failed"
        /\ fetchCalls = 0
        /\ NothingReturned

BuysOn(day) == {k \in 1..Len(trades) : trades[k].date = day /\ trades[k].action = "buy"}

PickedBefore(r) == \E k \in 1..Len(buyRecommendations) : buyRecommendations[k] = r

\* C14: at a rebalance the picks are at most 5 recommendations with
\* direction BUY, in descending order of score; a BUY recommendation is left
\* out only if 5 picks have a score >= its score; and only picks are bought.
PicksAreTopBuys ==
  (phase = "Simulating" /\ step = "buy") =>
    LET all == Recommendations(tickerDataMap, date)
    IN /\ Len(buyRecommendations) <= 5
       /\ \A k \in 1..Len(buyRecommendations) :
            /\ buyRecommendations[k].recommendation = "BUY"
            /\ \E n \in 1..Len(all) : all[n] = buyRecommendations[k]
            /\ k > 1 => RatGeq(buyRecommendations[k - 1].score, buyRecommendations[k].score)
       /\ \A n \in 1..Len(all) :
            (all[n].recommendation = "BUY" /\ ~PickedBefore(all[n])) =>
               /\ Len(buyRecommendations) = 5
               /\ \A k \in 1..5 : RatGeq(buyRecommendations[k].score, all[n].score)
       /\ Cardinality(BuysOn(date)) <= 5
       /\ \A k \in BuysOn(date) :
            \E n \in 1..Len(buyRecommendations) : buyRecommendations[n].ticker = trades[k].ticker

PicksWitness ==
  /\ phase = "Simulating"
  /\ step = "buy"
  /\ pick = 5
  /\ Cardinality(BuysOn(date)) = 5
  /\ impl = "engine"
  /\ buyRecommendations[1].ticker = "E"
  /\ RatGreater(buyRecommendations[1].score, buyRecommendations[5].score)
  /\ \E n \in 1..Len(Recommendations(tickerDataMap, date)) :
       Recommendations(tickerDataMap, date)[n].recommendation = "SELL"
  /\ \E n \in 1..Len(Recommendations(tickerDataMap, date)) :
       /\ Recommendations(tickerDataMap, date)[n].recommendation = "BUY"
       /\ ~PickedBefore(Recommendations(tickerDataMap, date)[n])

RECURSIVE TradeValue(_)
TradeValue(ks) ==
  IF ks = {} THEN 0
  ELSE LET k == CHOOSE n \in ks : TRUE IN trades[k].value + TradeValue(ks \ {k})

\* cash as it was after the liquidation of the current rebalance
PostLiquidationCash == cash + TradeValue(BuysOn(date))

\* C15: at a rebalance with k >= 1 picks and post-liquidation cash C, the
\* allocation is C/k for every pick; every pick handled so far has a close on
\* the date and, when floor((C/k)/close) > 0, was bought in exactly that
\* quantity at that close and is held in that quantity; a pick whose quantity
\* is 0 left no trade and no holding; cash went down by exactly the buys.
EveryPickBoughtAtEqualShare ==
  (phase = "Simulating" /\ step = "buy" /\ Len(buyRecommendations) >= 1) =>
    LET allocation == Rat(PostLiquidationCash, Len(buyRecommendations))
    IN /\ capitalPerAsset = allocation
       /\ \A k \in 1..pick :
            LET ticker == buyRecommendations[k].ticker
                price == getPriceAtDate(tickerDataMap[ticker], date)
            IN /\ price > 0
               /\ IF RatGeq(allocation, Num(price))
                    THEN \E n \in BuysOn(date) :
                           /\ trades[n].ticker = ticker
                           /\ trades[n].price = price
                           /\ trades[n].value = trades[n].quantity * price
                           /\ RatLeq(Num(trades[n].quantity * price), allocation)
                           /\ RatLess(allocation, Num((trades[n].quantity + 1) * price))
                           /\ Holds(holdings, <<ticker, trades[n].quantity>>)
                    ELSE /\ \A n \in BuysOn(date) : trades[n].ticker # ticker
                         /\ \A n \in 1..Len(holdings) : holdings[n][1] # ticker
       /\ \A n \in BuysOn(date) :
            \E k \in 1..pick : buyRecommendations[k].ticker = trades[n].ticker

\* the first pick was too dear for its share and skipped, the second bought
EqualShareWitness ==
  /\ phase = "Simulating"
  /\ step = "buy"
  /\ Len(buyRecommendations) = 2
  /\ pick = 2
  /\ RatLess(capitalPerAsset,
             Num(getPriceAtDate(tickerDataMap[buyRecommendations[1].ticker], date)))
  /\ \E n \in BuysOn(date) :
       trades[n].ticker = buyRecommendations[2].ticker /\ trades[n].quantity > 0
  /\ cash = PostLiquidationCash - TradeValue(BuysOn(date))
  /\ cash > 0

\* the short average of the ticker's fetched closes is above the long one
Trending(t) ==
  /\ t \in DOMAIN tickerDataMap
  /\ LET closes == Closes(tickerDataMap[t])
     IN RatGreater(calculateSMA(closes, ShortWindow, Len(closes)),
                   calculateSMA(closes, LongWindow, Len(closes)))

TrendingTickers == {t \in {config.tickers[k] : k \in 1..Len(config.tickers)} : Trending(t)}

\* C16 (as stated): in the end-to-end scenario the first rebalance buys every
\* ticker whose short SMA is above its long SMA, each with an equal share of
\* the initial capital.
FirstRebalanceBuysTrending ==
  (config = EndToEndConfig /\ Started /\ i >= 1) =>
     \A t \in TrendingTickers :
       \E n \in BuysOn(sortedDates[1]) :
         /\ trades[n].ticker = t
         /\ trades[n].quantity =
              Floor(RatDiv(Rat(config.initialCapital, Cardinality(TrendingTickers)),
                           Num(trades[n].price)))

TradeEntriesSound ==
  \A k \in 1..Len(trades) :
    /\ trades[k].price > 0
    /\ trades[k].quantity \in Nat \ {0}
    /\ trades[k].value = trades[k].price * trades[k].quantity
    /\ k > 1 => trades[k - 1].date <= trades[k].date

TradesOnlyAppended ==
  /\ Len(trades') >= Len(trades)
  /\ SubSeq(trades', 1, Len(trades)) = trades

\* C17: every entry of the trade log has price > 0, an integer quantity > 0
\* and value = price * quantity, the dates of the log are non-decreasing, and
\* every step leaves the entries already written in place, unchanged.
TradeLogSound == [](TradeEntriesSound) /\ [][TradesOnlyAppended]_vars

\* a finished run that bought, sold and bought again on later dates
TradeLogWitness ==
  /\ phase = "Done"
  /\ Len(trades) >= 4
  /\ trades[1].action = "buy"
  /\ \E k \in 2..Len(trades) : trades[k].action = "sell" /\ trades[k].date > trades[1].date
  /\ trades[Len(trades)].action = "buy"
  /\ TradeEntriesSound

\* the loop stands at the top of the iteration of a date that is not the
\* first one and lies less than rebalancePeriod days after lastRebalanceDate
AtNonRebalanceDate ==
  /\ phase = "Simulating"
  /\ step = "check"
  /\ i > 0
  /\ sortedDates[i + 1] - lastRebalanceDate < config.rebalancePeriod

OnlyEquityPointAdded ==
  /\ cash' = cash
  /\ holdings' = holdings
  /\ trades' = trades
  /\ periodReturns' = periodReturns
  /\ lastRebalanceDate' = lastRebalanceDate
  /\ portfolioValueAtLastRebalance' = portfolioValueAtLastRebalance
  /\ Len(equityCurve') = Len(equityCurve) + 1
  /\ SubSeq(equityCurve', 1, Len(equityCurve)) = equityCurve
  /\ equityCurve'[Len(equityCurve')].date = sortedDates[i + 1]
  /\ i' = i + 1

\* C18: the iteration of a simulated date that is not a rebalance date leaves
\* cash, holdings, the trade log, the period returns and lastRebalanceDate
\* unchanged and appends exactly one point, for that date, to the equity curve.
NonRebalanceDateOnlyRecords == [][AtNonRebalanceDate => OnlyEquityPointAdded]_vars

\* a non-rebalance date has just been passed with a position held
NonRebalanceWitness ==
  /\ phase = "Simulating"
  /\ step = "check"
  /\ i > 0
  /\ holdings # <<>>
  /\ Len(trades) > 0
  /\ ~Rebalanced(sortedDates[i])
  /\ equityCurve[Len(equityCurve)].date = sortedDates[i]
  /\ lastRebalanceDate < sortedDates[i]

\* the bars of the ticker dated on or before the day
BarsUpTo(ticker, day) ==
  {n \in 1..Len(tickerDataMap[ticker]) : tickerDataMap[ticker][n].date <= day}

HasBarOn(ticker, day) ==
  \E n \in 1..Len(tickerDataMap[ticker]) : tickerDataMap[ticker][n].date = day

Eligible(ticker, day) ==
  /\ ticker \in DOMAIN tickerDataMap
  /\ Cardinality(BarsUpTo(ticker, day)) >= MinBars
  /\ HasBarOn(ticker, day)

\* C25: a ticker is bought at a rebalance on date D only if it has at least
\* 200 bars dated <= D and a bar dated exactly D; a ticker failing either
\* condition has no recommendation and no buy trade at D.
BoughtOnlyWhenEligible ==
  /\ \A k \in 1..Len(trades) :
       trades[k].action = "buy" => Eligible(trades[k].ticker, trades[k].date)
  /\ (phase = "Simulating" /\ step = "buy") =>
       /\ \A n \in 1..Len(Recommendations(tickerDataMap, date)) :
            Eligible(Recommendations(tickerDataMap, date)[n].ticker, date)
       /\ \A n \in 1..Len(buyRecommendations) : Eligible(buyRecommendations[n].ticker, date)

\* a rebalance that buys one ticker while another ticker with data fails
\* one of the two conditions and is not bought
EligibilityWitness ==
  /\ phase = "Simulating"
  /\ step = "buy"
  /\ pick = Len(buyRecommendations)
  /\ BuysOn(date) # {}
  /\ \E t \in DOMAIN tickerDataMap :
       /\ Len(tickerDataMap[t]) > 0
       /\ ~Eligible(t, date)
       /\ \A k \in BuysOn(date) : trades[k].ticker # t

\* the combined score of a momentum and the 60-bar volatility of the closes
CombinedScoreOf(momentum, closes) ==
  RatAdd(RatMul(Rat(7, 10), RatDiv(momentum, Rat(3, 10))),
         RatMul(Rat(3, 10),
                RatNeg(RatDiv(RatSub(calculateVolatility(closes, VolatilityPeriod), Rat(1, 4)),
                              Rat(3, 20)))))

\* C26: for every series of at least momentumPeriod (126) bars the
\* multi-factor strategy reads the old price at an index inside the series,
\* its momentum is the fractional change from the close 126 bars before the
\* last one to the last close, and its normalizedScore is a defined number
\* in [-2, 2].
MomentumInsideSeries ==
  (spc = "done" /\ Len(seriesCloses) >= MomentumPeriod) =>
    LET n == Len(seriesCloses)
        old == OldPriceIndex(n, MomentumPeriod)
    IN /\ old \in 1..n
       /\ old = n - MomentumPeriod
       /\ analysis.mf.rawScore =
            CombinedScoreOf(Rat(seriesCloses[n] - seriesCloses[old], seriesCloses[old]),
                            seriesCloses)
       /\ IsFinite(analysis.mf.normalizedScore)
       /\ InBand(analysis.mf.normalizedScore, -2, 2)

HeldQuantity(held, ticker) ==
  IF \E k \in 1..Len(held) : held[k][1] = ticker
    THEN held[CHOOSE k \in 1..Len(held) : held[k][1] = ticker][2]
    ELSE 0

RECURSIVE TradeQuantity(_)
TradeQuantity(ks) ==
  IF ks = {} THEN 0
  ELSE LET k == CHOOSE n \in ks : TRUE IN trades[k].quantity + TradeQuantity(ks \ {k})

ConfiguredTickers == {config.tickers[k] : k \in 1..Len(config.tickers)}

\* the step that ends a rebalance: every ticker is held with the summed
\* quantity of the buy trades of this rebalance
BuysAreHeld ==
  (phase = "Simulating" /\ step = "buy" /\ pick = Len(buyRecommendations) /\ step' = "check") =>
    \A t \in ConfiguredTickers :
      HeldQuantity(holdings, t) = TradeQuantity({k \in BuysOn(date) : trades[k].ticker = t})

\* the step that liquidates: every held ticker with a price is sold with the
\* held quantity
HeldAreSold ==
  (phase = "Simulating" /\ step = "check" /\ step' = "select") =>
    \A k \in 1..Len(holdings) :
      getPriceAtDate(tickerDataMap[holdings[k][1]], date) > 0 =>
        \E n \in (Len(trades) + 1)..Len(trades') :
          /\ trades'[n].action = "sell"
          /\ trades'[n].date = date
          /\ trades'[n].ticker = holdings[k][1]
          /\ trades'[n].quantity = holdings[k][2]

\* C27: holdings and the trade log agree for every accepted ticker list,
\* lists that repeat a ticker included: after each rebalance of the engine
\* holdings[t] is the sum of the quantities of that rebalance's buy trades
\* for t, and at the next rebalance a held ticker with a price is sold with
\* that quantity.
HoldingsAgreeWithTrades == [][impl = "engine" => BuysAreHeld /\ HeldAreSold]_vars

DistinctTickers == Cardinality(ConfiguredTickers) = Len(config.tickers)

\* C28: with pairwise distinct tickers a rebalance conserves the portfolio
\* value: no step of the rebalance on a date (the liquidation, the selection,
\* each buy) changes the mark-to-market value at that date, and the new
\* baseline recorded after the buys is that value, so the baseline equals
\* the value computed before the liquidation.
RebalanceConservesValue ==
  [][(phase = "Simulating" /\ DistinctTickers) =>
       /\ i' = i =>
            calculatePortfolioValue(cash', holdings', tickerDataMap, date)
              = calculatePortfolioValue(cash, holdings, tickerDataMap, date)
       /\ (i' = i + 1 /\ step = "buy") =>
            portfolioValueAtLastRebalance'
              = calculatePortfolioValue(cash, holdings, tickerDataMap, date)]_vars

\* a rebalance with distinct tickers that sold holdings and bought again
ConservationWitness ==
  /\ phase = "Simulating"
  /\ DistinctTickers
  /\ step = "buy"
  /\ pick = Len(buyRecommendations)
  /\ BuysOn(date) # {}
  /\ \E k \in 1..Len(trades) : trades[k].date = date /\ trades[k].action = "sell"
  /\ cash > 0
  /\ calculatePortfolioValue(cash, holdings, tickerDataMap, date) > config.initialCapital

\* no ticker has two bars with the same date
UniqueBarDates ==
  \A t \in DOMAIN tickerDataMap :
    Cardinality({tickerDataMap[t][n].date : n \in 1..Len(tickerDataMap[t])})
      = Len(tickerDataMap[t])

\* C29: when every ticker's bars have unique dates, no ticker has 200 bars
\* dated on or before the first simulated date, no trade of the engine is
\* dated on it, the first equity point is initialCapital on that date, and
\* totalReturn is the change of the final value relative to initialCapital.
FirstDateKeepsCapital ==
  (impl = "engine" /\ Started /\ sortedDates # <<>> /\ UniqueBarDates) =>
    /\ \A t \in DOMAIN tickerDataMap : Cardinality(BarsUpTo(t, sortedDates[1])) < MinBars
    /\ \A k \in 1..Len(trades) : trades[k].date # sortedDates[1]
    /\ Len(equityCurve) >= 1 =>
         equityCurve[1] = [date |-> sortedDates[1], value |-> config.initialCapital]
    /\ (phase = "Done" /\ Len(equityCurve) >= 2) =>
         metrics.totalReturn =
           Rat(equityCurve[Len(equityCurve)].value - config.initialCapital,
               config.initialCapital)

\* a finished run of the engine that traded and ended above its capital
FirstDateWitness ==
  /\ impl = "engine"
  /\ phase = "Done"
  /\ UniqueBarDates
  /\ trades # <<>>
  /\ Len(equityCurve) >= 2
  /\ equityCurve[1].value = config.initialCapital
  /\ equityCurve[Len(equityCurve)].value > config.initialCapital
  /\ RatGreater(metrics.totalReturn, Num(0))

\* C30: for every series of at least longWindow bars the MA-crossover
\* direction is buy iff shortMA > longMA at the last bar, sell iff
\* shortMA < longMA, neutral iff they are equal, whatever the averages of the
\* previous bar are; and the sign of normalizedScore agrees with the
\* direction.
DirectionFromLastBar ==
  (spc = "done" /\ Len(seriesCloses) >= LongWindow) =>
    LET n == Len(seriesCloses)
        lastShortMA == calculateSMA(seriesCloses, ShortWindow, n)
        lastLongMA == calculateSMA(seriesCloses, LongWindow, n)
        signal == analysis.ma
    IN /\ signal.direction = "buy" <=> RatGreater(lastShortMA, lastLongMA)
       /\ signal.direction = "sell" <=> RatLess(lastShortMA, lastLongMA)
       /\ signal.direction = "neutral" <=> lastShortMA = lastLongMA
       /\ signal.direction = "buy" <=> RatGreater(signal.normalizedScore, Num(0))
       /\ signal.direction = "sell" <=> RatLess(signal.normalizedScore, Num(0))
       /\ signal.direction = "neutral" <=> signal.normalizedScore = Num(0)

\* a golden cross: the averages of the previous bar are equal, the short
\* average of the last bar is above the long one
GoldenCrossWitness ==
  /\ spc = "done"
  /\ Len(seriesCloses) > LongWindow
  /\ calculateSMA(seriesCloses, ShortWindow, Len(seriesCloses) - 1)
       = calculateSMA(seriesCloses, LongWindow, Len(seriesCloses) - 1)
  /\ RatGreater(calculateSMA(seriesCloses, ShortWindow, Len(seriesCloses)),
                calculateSMA(seriesCloses, LongWindow, Len(seriesCloses)))
  /\ analysis.ma.direction = "buy"

\* ------------------------------------------------------------------------
\* The performance metrics on their own: calculatePerformanceMetrics of either
\* implementation applied to an equity curve and a list of period returns.
\* ------------------------------------------------------------------------
MakeCurve(values) == [k \in 1..Len(values) |-> [date |-> k, value |-> values[k]]]

MetricCurves ==
  {MakeCurve(values) : values \in
     {<<>>, <<1000>>, <<1000, 1100>>, <<1000, 1000, 1000>>,
      <<1000, 1100, 1210, 1331>>, <<1000, 1200, 1440, 1728>>, <<1, 2, 4, 8>>,
      <<1000, 1010, 1000, 1050>>, <<1000, 900, 800>>, <<0, 0, 0>>,
      <<0, 10, 20>>, <<-50, -50, -60>>}}
  \cup {<<[date |-> 5, value |-> 1000], [date |-> 5, value |-> 1100]>>}

MetricReturns ==
  {<<>>, <<Rat(1, 10)>>, <<Rat(1, 10), Rat(-1, 20)>>, <<Num(0), Num(0)>>,
   <<Rat(1, 10), Rat(1, 10), Rat(1, 10)>>}

MetricsInit ==
  /\ impl \in {"engine", "serve"}
  /\ sortEngine = "v8"
  /\ config = <<>>
  /\ now = 0
  /\ provider = <<>>
  /\ RankIdle
  /\ AggIdle
  /\ SeriesIdle
  /\ phase = "Finalizing"
  /\ error = ""
  /\ fetchCalls = 0
  /\ tickerDataMap = <<>>
  /\ sortedDates = <<>>
  /\ i = 0
  /\ step = "check"
  /\ cash = 0
  /\ holdings = <<>>
  /\ equityCurve \in MetricCurves
  /\ trades = <<>>
  /\ periodReturns \in MetricReturns
  /\ lastRebalanceDate = 0
  /\ portfolioValueAtLastRebalance = 0
  /\ buyRecommendations = <<>>
  /\ capitalPerAsset = <<0, 1>>
  /\ pick = 0
  /\ metrics = <<>>
  /\ rebalanceLog = <<>>
  /\ handed = {}

MetricsNext == Finalize

SpecMetrics == MetricsInit /\ [][MetricsNext]_vars

\* ------------------------------------------------------------------------
\* Claims about the performance metrics
\* ------------------------------------------------------------------------
\* the daily returns of the curve are all defined and all the same number
DailyReturnsAllEqual(curve) ==
  /\ Len(curve) >= 2
  /\ \A k \in 1..(Len(curve) - 1) : curve[k].value # 0
  /\ \A k \in 1..(Len(curve) - 1) :
       Rat(curve[k + 1].value - curve[k].value, curve[k].value)
         = Rat(curve[2].value - curve[1].value, curve[1].value)

MetricsOfEngine == phase = "Done" /\ impl = "engine" /\ metrics # <<>>

\* C24: the metrics of lib/backtest return their sentinel: Sharpe is 0 when
\* the equity curve has fewer than 2 points or its daily returns have
\* standard deviation 0 (they are all the same number); CAGR is 0 when
\* years <= 0 or the initial value is <= 0; winRate is 0 when there is no
\* period return.
MetricsReturnSentinels ==
  MetricsOfEngine =>
    /\ (Len(equityCurve) < 2 \/ DailyReturnsAllEqual(equityCurve))
         => metrics.sharpeRatio = Num(0)
    /\ (\/ Len(equityCurve) < 2
        \/ equityCurve[1].value <= 0
        \/ RatLeq(YearsBetween(equityCurve[1].date, equityCurve[Len(equityCurve)].date),
                  Num(0)))
         => metrics.cagr = Num(0)
    /\ periodReturns = <<>> => metrics.winRate = Num(0)

====
